---- MODULE Spec2Model ----
(***************************************************************************)
(* cargo-doc2readme: the scope table (src/src/input.rs), path resolution   *)
(* and rendering (src/src/output.rs), the dependency-info codec            *)
(* (src/src/depinfo.rs) and the staleness verifier (src/src/verify.rs).    *)
(*                                                                         *)
(* Texts (documents, paths, tokens) are TLA+ strings, so that byte-wise    *)
(* comparison is string equality and searching is done on characters.      *)
(***************************************************************************)
EXTENDS Integers, Sequences, FiniteSets, TLC

(***************************************************************************)
(* Bounds of the model.                                                    *)
(***************************************************************************)
\* number of add_dependency calls on one accumulator
MaxDeps == 2
\* number of declarations and imports walked by read_scope_from_file
MaxItems == 2

(***************************************************************************)
(* String helpers (std::str).                                              *)
(***************************************************************************)
CharAt(s, i) == SubSeq(s, i, i)

StartsWith(s, p) == Len(s) >= Len(p) /\ SubSeq(s, 1, Len(p)) = p

EndsWith(s, p) == Len(s) >= Len(p) /\ SubSeq(s, Len(s) - Len(p) + 1, Len(s)) = p

\* the least of a set of indices, 0 for the empty set
FirstOf(hits) == IF hits = {} THEN 0 ELSE CHOOSE i \in hits : \A j \in hits : i <= j

\* memmem::find / str::find: the first index (from 1) of pat in s, 0 if none
Find(s, pat) ==
    FirstOf({i \in 1..(Len(s) - Len(pat) + 1) : SubSeq(s, i, i + Len(pat) - 1) = pat})

Contains(s, pat) == Find(s, pat) # 0

\* str::split(sep): the pieces of s between the occurrences of sep
RECURSIVE Split(_, _)
\* the piece before the occurrence at i, then the pieces after it
SplitAt(s, sep, i) ==
    IF i = 0 THEN <<s>>
    ELSE <<SubSeq(s, 1, i - 1)>> \o Split(SubSeq(s, i + Len(sep), Len(s)), sep)

Split(s, sep) == SplitAt(s, sep, Find(s, sep))

\* [T]::join(sep)
RECURSIVE Join(_, _)
Join(segs, sep) ==
    IF Len(segs) = 0 THEN ""
    ELSE IF Len(segs) = 1 THEN segs[1]
    ELSE segs[1] \o sep \o Join(Tail(segs), sep)

\* str::replace(from, to)
Replace(s, from, to) == Join(Split(s, from), to)

\* printable ASCII: codes 32..95 and 97..126 (a string literal cannot hold code 96)
AsciiLow == " !\"#$%&'()*+,-./0123456789:;<=>?@ABCDEFGHIJKLMNOPQRSTUVWXYZ[\\]^_"

AsciiHigh == "abcdefghijklmnopqrstuvwxyz{|}~"

\* the table character -> byte, computed once
CharCodes ==
    [c \in {CharAt(AsciiLow, i) : i \in 1..Len(AsciiLow)}
            \cup {CharAt(AsciiHigh, i) : i \in 1..Len(AsciiHigh)} \cup {"\n"} |->
        IF c = "\n" THEN 10
        ELSE IF Contains(AsciiLow, c) THEN 31 + Find(AsciiLow, c)
        ELSE 96 + Find(AsciiHigh, c)]

\* the byte of a character (as_bytes)
CharCode(c) == CharCodes[c]

CodeChar(b) ==
    IF b = 10 THEN "\n"
    ELSE IF b >= 32 /\ b <= 95 THEN CharAt(AsciiLow, b - 31)
    ELSE IF b >= 97 /\ b <= 126 THEN CharAt(AsciiHigh, b - 96)
    ELSE "?"

StrBytes(s) == [i \in 1..Len(s) |-> CharCode(CharAt(s, i))]

RECURSIVE BytesStr(_)
BytesStr(bs) == IF Len(bs) = 0 THEN "" ELSE CodeChar(Head(bs)) \o BytesStr(Tail(bs))

IsDigit(c) == Len(c) = 1 /\ Contains("0123456789", c)

DigitVal(c) == Find("0123456789", c) - 1

RECURSIVE FormatNat(_)
FormatNat(n) ==
    IF n < 10 THEN CharAt("0123456789", n + 1)
    ELSE FormatNat(n \div 10) \o CharAt("0123456789", (n % 10) + 1)

\* u64::from_str as semver uses it: digits only, no leading zero; -1 on error
RECURSIVE ParseNatAcc(_, _)
ParseNatAcc(s, acc) ==
    IF Len(s) = 0 THEN acc
    ELSE IF ~IsDigit(CharAt(s, 1)) THEN -1
    ELSE ParseNatAcc(Tail(s), acc * 10 + DigitVal(CharAt(s, 1)))

ParseNat(s) ==
    IF Len(s) = 0 \/ Len(s) > 4 THEN -1
    ELSE IF Len(s) > 1 /\ CharAt(s, 1) = "0" THEN -1
    ELSE ParseNatAcc(s, 0)

(***************************************************************************)
(* semver::Version (major.minor.patch; pre-release and build tags are not  *)
(* modelled) and the part of semver::VersionReq the manifest supplies.     *)
(***************************************************************************)
Version(ma, mi, pa) == [major |-> ma, minor |-> mi, patch |-> pa]

\* Option::None of Option<Version> and of Option<String>
NoVersion == [major |-> -1, minor |-> -1, patch |-> -1]

NoString == "<None>"

\* impl Ord for Version
VersionLess(a, b) ==
    \/ a.major < b.major
    \/ a.major = b.major /\ a.minor < b.minor
    \/ a.major = b.major /\ a.minor = b.minor /\ a.patch < b.patch

\* impl Display for Version
FormatVersion(v) ==
    FormatNat(v.major) \o "." \o FormatNat(v.minor) \o "." \o FormatNat(v.patch)

\* impl FromStr for Version: NoVersion when the text is no version
ParseVersion(s) ==
    LET parts == Split(s, ".")
    IN  IF Len(parts) # 3 THEN NoVersion
        ELSE IF \E i \in 1..3 : ParseNat(parts[i]) < 0 THEN NoVersion
        ELSE Version(ParseNat(parts[1]), ParseNat(parts[2]), ParseNat(parts[3]))

(***************************************************************************)
(* CBOR (serde_cbor) data items and their bytes.  An item is a record      *)
(* [k, n, s, a]: k the kind ("uint", "text", "null", "array", "map"), n    *)
(* the integer of a uint, s the text, a the items of an array or the       *)
(* alternating keys and values of a map.                                   *)
(***************************************************************************)
CUint(n) == [k |-> "uint", n |-> n, s |-> "", a |-> <<>>]

CText(s) == [k |-> "text", n |-> 0, s |-> s, a |-> <<>>]

CNull == [k |-> "null", n |-> 0, s |-> "", a |-> <<>>]

CArray(items) == [k |-> "array", n |-> 0, s |-> "", a |-> items]

CMap(kvs) == [k |-> "map", n |-> 0, s |-> "", a |-> kvs]

\* the head of a data item: major type mt (0..7) and argument n
CborHead(mt, n) ==
    IF n < 24 THEN <<mt * 32 + n>>
    ELSE IF n < 256 THEN <<mt * 32 + 24, n>>
    ELSE IF n < 65536 THEN <<mt * 32 + 25, n \div 256, n % 256>>
    ELSE <<mt * 32 + 26, n \div 16777216, (n \div 65536) % 256, (n \div 256) % 256, n % 256>>

RECURSIVE CborBytes(_)
RECURSIVE CborBytesAll(_)
\* serde_cbor::to_vec on an item
CborBytes(item) ==
    IF item.k = "uint" THEN CborHead(0, item.n)
    ELSE IF item.k = "text" THEN CborHead(3, Len(item.s)) \o StrBytes(item.s)
    ELSE IF item.k = "array" THEN CborHead(4, Len(item.a)) \o CborBytesAll(item.a)
    ELSE IF item.k = "map" THEN CborHead(5, Len(item.a) \div 2) \o CborBytesAll(item.a)
    ELSE <<246>>

CborBytesAll(items) ==
    IF Len(items) = 0 THEN <<>>
    ELSE CborBytes(Head(items)) \o CborBytesAll(Tail(items))

\* a parse result: ok, the item read, the bytes left
CborFail == [ok |-> FALSE, item |-> CNull, rest |-> <<>>]

CborOk(item, rest) == [ok |-> TRUE, item |-> item, rest |-> rest]

\* the argument of a head: [ok, n, rest]
CborArg(bytes) ==
    LET ai == Head(bytes) % 32
    IN  IF ai < 24 THEN [ok |-> TRUE, n |-> ai, rest |-> Tail(bytes)]
        ELSE IF ai = 24 /\ Len(bytes) >= 2
            THEN [ok |-> TRUE, n |-> bytes[2], rest |-> SubSeq(bytes, 3, Len(bytes))]
        ELSE IF ai = 25 /\ Len(bytes) >= 3
            THEN [ok |-> TRUE, n |-> bytes[2] * 256 + bytes[3],
                  rest |-> SubSeq(bytes, 4, Len(bytes))]
        ELSE IF ai = 26 /\ Len(bytes) >= 5 /\ bytes[2] < 128
            THEN [ok |-> TRUE,
                  n |-> bytes[2] * 16777216 + bytes[3] * 65536 + bytes[4] * 256 + bytes[5],
                  rest |-> SubSeq(bytes, 6, Len(bytes))]
        ELSE [ok |-> FALSE, n |-> 0, rest |-> <<>>]

RECURSIVE CborParse(_)
RECURSIVE CborParseN(_, _)
\* the keys and values read as an array, as a map
CborAsMap(r) == IF r.ok THEN CborOk(CMap(r.item.a), r.rest) ELSE CborFail

\* the item whose head (major type mt, argument arg) has been read
CborParseBody(mt, arg) ==
    IF ~arg.ok THEN CborFail
    ELSE IF mt = 0 THEN CborOk(CUint(arg.n), arg.rest)
    ELSE IF mt = 3 THEN
        IF Len(arg.rest) < arg.n THEN CborFail
        ELSE CborOk(CText(BytesStr(SubSeq(arg.rest, 1, arg.n))),
                    SubSeq(arg.rest, arg.n + 1, Len(arg.rest)))
    ELSE IF mt = 4 THEN CborParseN(arg.rest, arg.n)
    ELSE IF mt = 5 THEN CborAsMap(CborParseN(arg.rest, 2 * arg.n))
    ELSE CborFail

\* serde_cbor reading one item from the front of the bytes
CborParse(bytes) ==
    IF Len(bytes) = 0 THEN CborFail
    ELSE IF Head(bytes) = 246 THEN CborOk(CNull, Tail(bytes))
    ELSE CborParseBody(Head(bytes) \div 32, CborArg(bytes))

\* first followed by the items others
CborCons(first, others) ==
    IF ~others.ok THEN CborFail
    ELSE CborOk(CArray(<<first.item>> \o others.item.a), others.rest)

CborParseRest(first, n) ==
    IF ~first.ok THEN CborFail ELSE CborCons(first, CborParseN(first.rest, n - 1))

\* n items in a row, returned as the items of an array
CborParseN(bytes, n) ==
    IF n = 0 THEN CborOk(CArray(<<>>), bytes)
    ELSE CborParseRest(CborParse(bytes), n)

\* serde_cbor::from_slice: one item and nothing after it
CborWhole(r) == IF r.ok /\ Len(r.rest) = 0 THEN r ELSE CborFail

CborFromSlice(bytes) == CborWhole(CborParse(bytes))

(***************************************************************************)
(* base64, URL_SAFE_NO_PAD.                                                *)
(***************************************************************************)
Base64Alphabet == "ABCDEFGHIJKLMNOPQRSTUVWXYZabcdefghijklmnopqrstuvwxyz0123456789-_"

B64Char(n) == CharAt(Base64Alphabet, n + 1)

RECURSIVE Base64Encode(_)
\* base64::encode_config(bytes, URL_SAFE_NO_PAD)
Base64Encode(bytes) ==
    IF Len(bytes) = 0 THEN ""
    ELSE IF Len(bytes) = 1 THEN
        B64Char(bytes[1] \div 4) \o B64Char((bytes[1] % 4) * 16)
    ELSE IF Len(bytes) = 2 THEN
        B64Char(bytes[1] \div 4) \o B64Char((bytes[1] % 4) * 16 + bytes[2] \div 16)
            \o B64Char((bytes[2] % 16) * 4)
    ELSE
        B64Char(bytes[1] \div 4) \o B64Char((bytes[1] % 4) * 16 + bytes[2] \div 16)
            \o B64Char((bytes[2] % 16) * 4 + bytes[3] \div 64) \o B64Char(bytes[3] % 64)
            \o Base64Encode(SubSeq(bytes, 4, Len(bytes)))

\* the table character -> 6-bit value, computed once
B64Table ==
    [c \in {CharAt(Base64Alphabet, i) : i \in 1..Len(Base64Alphabet)} |->
        Find(Base64Alphabet, c) - 1]

\* the 6-bit values of the characters, -1 for a character outside the alphabet
B64Values(s) ==
    [i \in 1..Len(s) |->
        IF CharAt(s, i) \in DOMAIN B64Table THEN B64Table[CharAt(s, i)] ELSE -1]

RECURSIVE B64Bytes(_)
B64Bytes(v) ==
    IF Len(v) = 0 THEN <<>>
    ELSE IF Len(v) = 2 THEN <<v[1] * 4 + v[2] \div 16>>
    ELSE IF Len(v) = 3 THEN <<v[1] * 4 + v[2] \div 16, (v[2] % 16) * 16 + v[3] \div 4>>
    ELSE <<v[1] * 4 + v[2] \div 16, (v[2] % 16) * 16 + v[3] \div 4, (v[3] % 4) * 64 + v[4]>>
            \o B64Bytes(SubSeq(v, 5, Len(v)))

\* the bytes of 6-bit values v, when they are some bytes' encoding
Base64DecodeValues(v, n) ==
    IF \E i \in 1..n : v[i] < 0 THEN [ok |-> FALSE, bytes |-> <<>>]
    ELSE IF n % 4 = 1 THEN [ok |-> FALSE, bytes |-> <<>>]
    ELSE IF n % 4 = 2 /\ v[n] % 16 # 0 THEN [ok |-> FALSE, bytes |-> <<>>]
    ELSE IF n % 4 = 3 /\ v[n] % 4 # 0 THEN [ok |-> FALSE, bytes |-> <<>>]
    ELSE [ok |-> TRUE, bytes |-> B64Bytes(v)]

\* base64::decode_config(data, URL_SAFE_NO_PAD): [ok, bytes].  It fails on a
\* character outside the alphabet, on a length of 1 mod 4, and on a last
\* character with bits that belong to no byte.
Base64Decode(s) == Base64DecodeValues(B64Values(s), Len(s))

(***************************************************************************)
(* blake3::hash.  A hash is modelled with 8 bytes instead of 32 and is     *)
(* written as four big-endian words of 2 bytes instead of 8; the function  *)
(* is a stand-in that tells apart the texts of this model.                 *)
(***************************************************************************)
RECURSIVE WeightedSum(_, _, _)
WeightedSum(bytes, i, pow) ==
    IF i > Len(bytes) THEN 0
    ELSE (bytes[i] * (IF pow = 0 THEN 1 ELSE IF pow = 1 THEN i ELSE i * i)
            + WeightedSum(bytes, i + 1, pow)) % 256

Blake3Bytes(b, n) ==
    <<n % 256, WeightedSum(b, 1, 0), WeightedSum(b, 1, 1), WeightedSum(b, 1, 2),
      IF n = 0 THEN 0 ELSE b[1], IF n = 0 THEN 0 ELSE b[n], (n * 7 + 3) % 256, 90>>

Blake3(s) == Blake3Bytes(StrBytes(s), Len(s))

\* HashDef::serialize: the words u64::from_be_bytes of each quarter of the hash
HashWords(hash) ==
    <<hash[1] * 256 + hash[2], hash[3] * 256 + hash[4],
      hash[5] * 256 + hash[6], hash[7] * 256 + hash[8]>>

\* HashDef::deserialize: to_be_bytes of each word, in order
HashFromWords(parts) ==
    <<parts[1] \div 256, parts[1] % 256, parts[2] \div 256, parts[2] % 256,
      parts[3] \div 256, parts[3] % 256, parts[4] \div 256, parts[4] % 256>>

ZeroHash == <<0, 0, 0, 0, 0, 0, 0, 0>>

(***************************************************************************)
(* depinfo.rs: Dependency, DependencyInfoV1, DependencyInfoImpl and        *)
(* DependencyInfo.                                                         *)
(***************************************************************************)
\* Dependency::new: the lib name is kept only when it differs from the crate name
DependencyNew(crate_name, version, lib_name) ==
    [crate_name |-> crate_name, version |-> version,
     lib_name |-> IF lib_name # crate_name THEN lib_name ELSE NoString]

\* Dependency::lib_name
DepLibName(dep) == IF dep.lib_name = NoString THEN dep.crate_name ELSE dep.lib_name

\* DependencyInfoImpl::new / DependencyInfo::new
DependencyInfoImplNew(markdown_version, template, rustdoc) ==
    [markdown_version |-> markdown_version,
     template_hash |-> Blake3(template),
     rustdoc_hash |-> Blake3(rustdoc),
     dependencies |-> {}]

\* DependencyInfo::markdown_version
MarkdownVersion == 0

DependencyInfoNew(template, rustdoc) ==
    DependencyInfoImplNew(MarkdownVersion, template, rustdoc)

\* a mutant of AddDependency: the record replaces the records of its name
AddDependencyReplace(info, crate_name, version, lib_name) ==
    [info EXCEPT !.dependencies =
        {dep \in @ : dep.crate_name # crate_name}
            \cup {DependencyNew(crate_name, version, lib_name)}]

\* DependencyInfoImpl::add_dependency: BTreeSet::insert
AddDependency(info, crate_name, version, lib_name) ==
    [info EXCEPT !.dependencies = @ \cup {DependencyNew(crate_name, version, lib_name)}]

\* impl Ord for str: byte-wise lexicographic
RECURSIVE StrLess(_, _)
StrLess(a, b) ==
    IF Len(b) = 0 THEN FALSE
    ELSE IF Len(a) = 0 THEN TRUE
    ELSE IF CharCode(CharAt(a, 1)) # CharCode(CharAt(b, 1))
        THEN CharCode(CharAt(a, 1)) < CharCode(CharAt(b, 1))
    ELSE StrLess(Tail(a), Tail(b))

\* Option<Version>: None is less than every Some
OptVersionLess(a, b) ==
    IF a = NoVersion THEN b # NoVersion
    ELSE IF b = NoVersion THEN FALSE
    ELSE VersionLess(a, b)

OptStringLess(a, b) ==
    IF a = NoString THEN b # NoString
    ELSE IF b = NoString THEN FALSE
    ELSE StrLess(a, b)

\* #[derive(Ord)] on Dependency: field by field
DependencyLess(a, b) ==
    \/ StrLess(a.crate_name, b.crate_name)
    \/ a.crate_name = b.crate_name /\ OptVersionLess(a.version, b.version)
    \/ a.crate_name = b.crate_name /\ a.version = b.version
        /\ OptStringLess(a.lib_name, b.lib_name)

\* BTreeSet iteration: the elements in ascending order
RECURSIVE SortedDeps(_)
LeastDep(deps) == CHOOSE d \in deps : \A e \in deps \ {d} : DependencyLess(d, e)

SortedFrom(least, deps) == <<least>> \o SortedDeps(deps \ {least})

SortedDeps(deps) == IF deps = {} THEN <<>> ELSE SortedFrom(LeastDep(deps), deps)

\* the last entry of a name in the ascending sequence
LastOf(sorted, name) ==
    CHOOSE i \in 1..Len(sorted) :
        /\ sorted[i].crate_name = name
        /\ \A j \in 1..Len(sorted) : sorted[j].crate_name = name => j <= i

MapOfSorted(sorted) ==
    [name \in {sorted[i].crate_name : i \in 1..Len(sorted)} |->
        [version |-> sorted[LastOf(sorted, name)].version,
         lib_name |-> DepLibName(sorted[LastOf(sorted, name)])]]

\* DependencyInfoImpl::dependencies: the BTreeMap crate name -> (version, lib name);
\* collecting in ascending order, a later entry of the same name replaces an earlier one
DependenciesMap(info) == MapOfSorted(SortedDeps(info.dependencies))

\* DependencyInfo::is_empty
InfoIsEmpty(info) == info.dependencies = {}

\* DependencyInfo::check_input
CheckInput(info, template, rustdoc) ==
    info.template_hash = Blake3(template) /\ info.rustdoc_hash = Blake3(rustdoc)

\* DependencyInfo::check_outdated
CheckOutdated(info) == info.markdown_version # MarkdownVersion

\* the comparison of check_dependency once the map is built
CheckAgainst(dependencies, crate_name, version, lib_name, allow_missing) ==
    IF crate_name \notin DOMAIN dependencies THEN allow_missing
    ELSE IF lib_name # dependencies[crate_name].lib_name THEN FALSE
    ELSE IF version # NoVersion
            /\ (dependencies[crate_name].version = NoVersion
                \/ VersionLess(dependencies[crate_name].version, version))
        THEN FALSE
    ELSE TRUE

\* a mutant of CheckDependency: a missing dependency is never accepted
CheckDependencyStrict(info, crate_name, version, lib_name, allow_missing) ==
    CheckAgainst(DependenciesMap(info), crate_name, version, lib_name, FALSE)

\* DependencyInfo::check_dependency
CheckDependency(info, crate_name, version, lib_name, allow_missing) ==
    CheckAgainst(DependenciesMap(info), crate_name, version, lib_name, allow_missing)

(***************************************************************************)
(* serde: DependencyInfoImpl to and from a CBOR item.                      *)
(***************************************************************************)
OptVersionItem(v) == IF v = NoVersion THEN CNull ELSE CText(FormatVersion(v))

\* #[derive(Serialize)] on Dependency: a tuple struct whose third field is
\* skipped when it is None
DependencyItem(dep) ==
    IF dep.lib_name = NoString
    THEN CArray(<<CText(dep.crate_name), OptVersionItem(dep.version)>>)
    ELSE CArray(<<CText(dep.crate_name), OptVersionItem(dep.version), CText(dep.lib_name)>>)

HashItem(hash) ==
    LET parts == HashWords(hash)
    IN  CArray(<<CUint(parts[1]), CUint(parts[2]), CUint(parts[3]), CUint(parts[4])>>)

\* #[derive(Serialize)] on DependencyInfoImpl (untagged) and DependencyInfoV1
DepsItem(sorted) == CArray([i \in 1..Len(sorted) |-> DependencyItem(sorted[i])])

InfoItem(info) ==
    CArray(<<CUint(1),
             CMap(<<CText("m"), CUint(info.markdown_version),
                    CText("t"), HashItem(info.template_hash),
                    CText("r"), HashItem(info.rustdoc_hash),
                    CText("d"), DepsItem(SortedDeps(info.dependencies))>>)>>)

\* a mutant of Encode: the dependency set is left out of the record
EncodeWithoutDeps(info) ==
    Base64Encode(CborBytes(InfoItem([info EXCEPT !.dependencies = {}])))

\* DependencyInfo::encode
Encode(info) == Base64Encode(CborBytes(InfoItem(info)))

NoInfo ==
    [markdown_version |-> 0, template_hash |-> ZeroHash, rustdoc_hash |-> ZeroHash,
     dependencies |-> {}]

DecodeFail == [ok |-> FALSE, info |-> NoInfo]

\* Option<Version> and Option<String> from an item
IsOptVersionItem(item) ==
    item.k = "null" \/ (item.k = "text" /\ ParseVersion(item.s) # NoVersion)

OptVersionOf(item) == IF item.k = "null" THEN NoVersion ELSE ParseVersion(item.s)

IsOptStringItem(item) == item.k = "null" \/ item.k = "text"

OptStringOf(item) == IF item.k = "null" THEN NoString ELSE item.s

\* #[derive(Deserialize)] on Dependency: two or three elements, the third one
\* defaults to None
IsDependencyItem(item) ==
    /\ item.k = "array"
    /\ Len(item.a) \in {2, 3}
    /\ item.a[1].k = "text"
    /\ IsOptVersionItem(item.a[2])
    /\ Len(item.a) = 3 => IsOptStringItem(item.a[3])

DependencyOf(item) ==
    [crate_name |-> item.a[1].s,
     version |-> OptVersionOf(item.a[2]),
     lib_name |-> IF Len(item.a) = 3 THEN OptStringOf(item.a[3]) ELSE NoString]

\* HashDef::deserialize reads (u64, u64, u64, u64); a word is 2 bytes here
IsHashItem(item) ==
    /\ item.k = "array"
    /\ Len(item.a) = 4
    /\ \A i \in 1..4 : item.a[i].k = "uint" /\ item.a[i].n < 65536

HashOf(item) ==
    HashFromWords(<<item.a[1].n, item.a[2].n, item.a[3].n, item.a[4].n>>)

IsDepsItem(item) ==
    item.k = "array" /\ \A i \in 1..Len(item.a) : IsDependencyItem(item.a[i])

\* the field a map key names: by name, or by index; 0 for any other key
FieldOfKey(key) ==
    IF key.k = "text" THEN
        (IF key.s = "m" THEN 1 ELSE IF key.s = "t" THEN 2
         ELSE IF key.s = "r" THEN 3 ELSE IF key.s = "d" THEN 4 ELSE 0)
    ELSE IF key.k = "uint" /\ key.n < 4 THEN key.n + 1
    ELSE 0

\* #[derive(Deserialize)] on DependencyInfoV1: the four fields as an array, in
\* order, or as a map with each field once; unknown keys are ignored
FieldsOf(item) ==
    IF item.k = "array" /\ Len(item.a) = 4
    THEN [ok |-> TRUE, f |-> item.a]
    ELSE IF item.k = "map"
    THEN LET n == Len(item.a) \div 2
             at(field) == {i \in 1..n : FieldOfKey(item.a[2 * i - 1]) = field}
         IN  IF \A field \in 1..4 : Cardinality(at(field)) = 1
             THEN [ok |-> TRUE,
                   f |-> [field \in 1..4 |-> item.a[2 * (CHOOSE i \in at(field) : TRUE)]]]
             ELSE [ok |-> FALSE, f |-> <<>>]
    ELSE [ok |-> FALSE, f |-> <<>>]

\* DependencyInfoV1 from its four fields
InfoOfFields(fields) ==
    IF ~fields.ok THEN DecodeFail
    ELSE IF ~(fields.f[1].k = "uint" /\ fields.f[1].n < 256) THEN DecodeFail
    ELSE IF ~IsHashItem(fields.f[2]) \/ ~IsHashItem(fields.f[3]) THEN DecodeFail
    ELSE IF ~IsDepsItem(fields.f[4]) THEN DecodeFail
    ELSE [ok |-> TRUE,
          info |-> [markdown_version |-> fields.f[1].n,
                    template_hash |-> HashOf(fields.f[2]),
                    rustdoc_hash |-> HashOf(fields.f[3]),
                    dependencies |->
                        {DependencyOf(fields.f[4].a[i]) : i \in 1..Len(fields.f[4].a)}]]

\* #[derive(Deserialize)] on DependencyInfoImpl: V1(MustBe!(1u8), DependencyInfoV1)
InfoOfItem(item) ==
    IF ~(item.k = "array" /\ Len(item.a) = 2) THEN DecodeFail
    ELSE IF ~(item.a[1].k = "uint" /\ item.a[1].n = 1) THEN DecodeFail
    ELSE InfoOfFields(FieldsOf(item.a[2]))

\* serde_cbor::from_slice into DependencyInfoImpl
InfoOfParsed(parsed) == IF ~parsed.ok THEN DecodeFail ELSE InfoOfItem(parsed.item)

InfoOfBytes(bytes) == IF ~bytes.ok THEN DecodeFail ELSE InfoOfParsed(CborFromSlice(bytes.bytes))

\* DependencyInfo::decode: [ok, info]
Decode(data) == InfoOfBytes(Base64Decode(data))

(***************************************************************************)
(* input.rs: Scope, the prelude, ScopeEditor and read_scope_from_file.     *)
(* A scope is [scope, privmods]: scope maps a name to its bindings         *)
(* [ty, path], front first; privmods is the set of private modules.        *)
(***************************************************************************)
Binding(ty, path) == [ty |-> ty, path |-> path]

\* a mutant of ScopeInsert: push_back instead of push_front
ScopeInsertBack(sc, key, ty, value) ==
    [sc EXCEPT !.scope =
        IF key \in DOMAIN @
        THEN [@ EXCEPT ![key] = @ \o <<Binding(ty, value)>>]
        ELSE @ @@ (key :> <<Binding(ty, value)>>)]

\* Scope::insert: entry(key).or_default().push_front((ty, value))
ScopeInsert(sc, key, ty, value) ==
    [sc EXCEPT !.scope =
        IF key \in DOMAIN @
        THEN [@ EXCEPT ![key] = <<Binding(ty, value)>> \o @]
        ELSE @ @@ (key :> <<Binding(ty, value)>>)]

\* Scope::empty
ScopeEmpty == [scope |-> <<>>, privmods |-> {}]

\* make_prelude on one entry (name, path, link type): a macro is entered with
\* and without the `!`
PreludePath(name, path) ==
    IF path = "" THEN "::std::" \o name ELSE "::std::" \o path \o "::" \o name

PreludeEntry(entry) ==
    IF entry[3] = "Macro"
    THEN (entry[1] :> <<Binding(entry[3], PreludePath(entry[1], entry[2]))>>)
            @@ ((entry[1] \o "!") :> <<Binding(entry[3], PreludePath(entry[1], entry[2]))>>)
    ELSE (entry[1] :> <<Binding(entry[3], PreludePath(entry[1], entry[2]))>>)

RECURSIVE MakePrelude(_)
\* HashMap::from_iter and HashMap::insert: a later entry of a name replaces an earlier one
MakePrelude(prelude) ==
    IF Len(prelude) = 0 THEN <<>>
    ELSE PreludeEntry(prelude[Len(prelude)]) @@ MakePrelude(SubSeq(prelude, 1, Len(prelude) - 1))

\* some rows of the table of Scope::prelude
PreludeTable ==
    <<<<"u8", "", "Primitive">>, <<"Clone", "clone", "Trait">>,
      <<"Option", "option", "Enum">>, <<"Some", "option::Option", "Use">>,
      <<"String", "string", "Struct">>, <<"Vec", "vec", "Struct">>,
      <<"vec", "", "Macro">>>>

PreludeTable2021 == <<<<"TryInto", "convert", "Use">>>>

PreludeTable2024 == <<<<"Future", "future", "Trait">>>>

\* Scope::prelude(edition)
ScopePrelude(edition) ==
    [scope |-> (IF edition >= 2024 THEN MakePrelude(PreludeTable2024) ELSE <<>>)
                @@ (IF edition >= 2021 THEN MakePrelude(PreludeTable2021) ELSE <<>>)
                @@ MakePrelude(PreludeTable),
     privmods |-> {}]

\* sanitize_crate_name
SanitizeCrateName(name) == Replace(name, "-", "_")

\* ScopeEditor::add_privmod
AddPrivmod(sc, ident) == [sc EXCEPT !.privmods = @ \cup {ident}]

\* ScopeEditor::insert
EditorInsert(sc, crate_name, ident, ty) ==
    ScopeInsert(sc, ident, ty, "::" \o crate_name \o "::" \o ident)

\* a mutant of InsertFun: the call-style key is not entered
InsertFunBare(sc, crate_name, ident) ==
    ScopeInsert(sc, ident, "Function", "::" \o crate_name \o "::" \o ident)

\* ScopeEditor::insert_fun
InsertFun(sc, crate_name, ident) ==
    ScopeInsert(ScopeInsert(sc, ident, "Function", "::" \o crate_name \o "::" \o ident),
                ident \o "()", "Function", "::" \o crate_name \o "::" \o ident)

\* ScopeEditor::insert_macro
InsertMacro(sc, crate_name, ident) ==
    ScopeInsert(ScopeInsert(sc, ident, "Macro", "::" \o crate_name \o "::" \o ident),
                ident \o "!", "Macro", "::" \o crate_name \o "::" \o ident)

\* a mutant of InsertUseItem: the PubUse binding is pushed after the Use binding
InsertUseItemPubFront(sc, crate_name, public, prefix, rename, ident) ==
    LET used == ScopeInsert(sc, rename, "Use", prefix \o ident)
    IN  IF public THEN EditorInsert(used, crate_name, rename, "PubUse") ELSE used

\* ScopeEditor::insert_use_item
InsertUseItem(sc, crate_name, public, prefix, rename, ident) ==
    ScopeInsert(IF public THEN EditorInsert(sc, crate_name, rename, "PubUse") ELSE sc,
                rename, "Use", prefix \o ident)

\* syn::UseTree
UsePath(ident, tree) == [t |-> "Path", ident |-> ident, rename |-> "", sub |-> <<tree>>]

UseName(ident) == [t |-> "Name", ident |-> ident, rename |-> "", sub |-> <<>>]

UseRename(ident, rename) == [t |-> "Rename", ident |-> ident, rename |-> rename, sub |-> <<>>]

UseGlob == [t |-> "Glob", ident |-> "", rename |-> "", sub |-> <<>>]

UseGroup(items) == [t |-> "Group", ident |-> "", rename |-> "", sub |-> items]

RECURSIVE InsertUseTreeImpl(_, _, _, _, _)
RECURSIVE InsertUseGroup(_, _, _, _, _)
\* ScopeEditor::insert_use_tree_impl; the warning of a glob is not part of the scope
InsertUseTreeImpl(sc, crate_name, public, prefix, tree) ==
    IF tree.t = "Path"
    THEN InsertUseTreeImpl(sc, crate_name, public, prefix \o tree.ident \o "::", tree.sub[1])
    ELSE IF tree.t = "Name"
    THEN (IF prefix # "" THEN InsertUseItem(sc, crate_name, public, prefix, tree.ident, tree.ident)
          ELSE sc)
    ELSE IF tree.t = "Rename"
    THEN InsertUseItem(sc, crate_name, public, prefix, tree.rename, tree.ident)
    ELSE IF tree.t = "Group"
    THEN InsertUseGroup(sc, crate_name, public, prefix, tree.sub)
    ELSE sc

InsertUseGroup(sc, crate_name, public, prefix, items) ==
    IF Len(items) = 0 THEN sc
    ELSE InsertUseGroup(InsertUseTreeImpl(sc, crate_name, public, prefix, Head(items)),
                        crate_name, public, prefix, Tail(items))

\* is_prelude_import: `use std::prelude::...` or `use core::prelude::...`
IsPreludeImport(tree) ==
    /\ tree.t = "Path"
    /\ tree.ident \in {"std", "core"}
    /\ tree.sub[1].t = "Path"
    /\ tree.sub[1].ident = "prelude"

\* syn::Item: item is the kind, public is_public(vis); attr is the proc-macro
\* attribute of a function ("" for none) and derive the name it gives; exported is
\* is_exported of a macro; rename is the rename of an extern crate ("" for none)
Item(item, public, ident) ==
    [item |-> item, public |-> public, ident |-> ident, attr |-> "", derive |-> "",
     exported |-> FALSE, rename |-> "", tree |-> UseGlob]

\* a macro_rules! item, exported when it carries #[macro_export]
ItemMacro(exported, ident) ==
    [item |-> "Macro", public |-> FALSE, ident |-> ident, attr |-> "", derive |-> "",
     exported |-> exported, rename |-> "", tree |-> UseGlob]

ItemUse(public, tree) ==
    [item |-> "Use", public |-> public, ident |-> "", attr |-> "", derive |-> "",
     exported |-> FALSE, rename |-> "", tree |-> tree]

\* the body of the loop of read_scope_from_file on one item
WalkItem(sc, crate_name, i) ==
    IF i.item \in {"Const", "Enum", "Static", "Struct", "Trait", "TraitAlias", "Type", "Union"}
    THEN (IF i.public THEN EditorInsert(sc, crate_name, i.ident, i.item) ELSE sc)
    ELSE IF i.item = "ExternCrate"
    THEN (IF i.public /\ i.ident # "self" /\ i.rename # ""
          THEN ScopeInsert(sc, i.rename, "ExternCrate", "::" \o i.ident)
          ELSE sc)
    ELSE IF i.item = "Fn"
    THEN (IF ~i.public THEN sc
          ELSE IF i.attr = "proc_macro" THEN InsertMacro(sc, crate_name, i.ident)
          ELSE IF i.attr = "proc_macro_attribute" THEN EditorInsert(sc, crate_name, i.ident, "Attr")
          ELSE IF i.attr = "proc_macro_derive"
          THEN (IF i.derive # "" THEN EditorInsert(sc, crate_name, i.derive, "Derive") ELSE sc)
          ELSE InsertFun(sc, crate_name, i.ident))
    ELSE IF i.item = "Macro"
    THEN (IF i.exported /\ i.ident # "" THEN InsertMacro(sc, crate_name, i.ident) ELSE sc)
    ELSE IF i.item = "Mod"
    THEN (IF i.public THEN EditorInsert(sc, crate_name, i.ident, "Mod")
          ELSE AddPrivmod(sc, i.ident))
    ELSE IF i.item = "Use"
    THEN (IF ~IsPreludeImport(i.tree)
          THEN InsertUseTreeImpl(sc, crate_name, i.public, "", i.tree)
          ELSE sc)
    ELSE sc

(***************************************************************************)
(* diagnostic.rs: a Diagnostic is [reports, fail]; reports holds the kind  *)
(* of every report pushed, in order.                                       *)
(***************************************************************************)
\* Diagnostic::new
DiagnosticNew == [reports |-> <<>>, fail |-> FALSE]

\* Diagnostic::is_fail
IsFail(diag) == diag.fail

\* a mutant of WarnWithLabel: the warning marks the diagnostics as failed
WarnWithLabelFailing(diag) == [reports |-> Append(diag.reports, "Warning"), fail |-> TRUE]

\* Diagnostic::warn_with_label
WarnWithLabel(diag) == [diag EXCEPT !.reports = Append(@, "Warning")]

\* Diagnostic::syntax_error
SyntaxError(diag) == [reports |-> Append(diag.reports, "Error"), fail |-> TRUE]

RECURSIVE UseTreeDiagnostics(_, _)
RECURSIVE UseGroupDiagnostics(_, _)
\* what ScopeEditor::insert_use_tree_impl does to its diagnostics: a glob is
\* reported with a warning, the other trees report nothing
UseTreeDiagnostics(diag, tree) ==
    IF tree.t = "Path" THEN UseTreeDiagnostics(diag, tree.sub[1])
    ELSE IF tree.t = "Glob" THEN WarnWithLabel(diag)
    ELSE IF tree.t = "Group" THEN UseGroupDiagnostics(diag, tree.sub)
    ELSE diag

UseGroupDiagnostics(diag, items) ==
    IF Len(items) = 0 THEN diag
    ELSE UseGroupDiagnostics(UseTreeDiagnostics(diag, Head(items)), Tail(items))

\* what the body of the loop of read_scope_from_file does to the diagnostics on
\* one item: a derive macro without a name is a syntax error
WalkItemDiagnostics(diag, i) ==
    IF i.item = "Fn" /\ i.public /\ i.attr = "proc_macro_derive" /\ i.derive = ""
    THEN SyntaxError(diag)
    ELSE IF i.item = "Use" /\ ~IsPreludeImport(i.tree)
    THEN UseTreeDiagnostics(diag, i.tree)
    ELSE diag

\* the test of the cleanup pass on one binding
PrivmodTest(segments, privmods) == Len(segments) > 1 /\ segments[1] \in privmods

IsPrivmodImport(binding, crate_name, privmods) ==
    /\ binding.ty = "Use"
    /\ (~StartsWith(binding.path, "::")
        \/ StartsWith(binding.path, "::" \o crate_name \o "::"))
    /\ PrivmodTest(Split(binding.path, "::"), privmods)

\* "remove privmod imports from scope", the pass that ends read_scope_from_file
RemovePrivmodImports(sc, crate_name) ==
    [sc EXCEPT !.scope =
        [key \in DOMAIN @ |->
            LET keep(binding) == ~IsPrivmodImport(binding, crate_name, sc.privmods)
            IN  SelectSeq(@[key], keep)]]

(***************************************************************************)
(* output.rs: Scope::resolve.  The value of a name is the path of its      *)
(* front binding (ScopeScope, input.rs); a name whose bindings were all    *)
(* removed has no value.                                                   *)
(***************************************************************************)
\* the number of head substitutions followed; a resolution that needs more has
\* not returned
MaxResolveDepth == 6

Diverges == "<no result>"

HasValue(sc, name) == name \in DOMAIN sc.scope /\ Len(sc.scope[name]) > 0

RECURSIVE ResolveSegments(_, _, _, _, _)
RECURSIVE Resolve(_, _, _, _)
ResolveSegments(sc, crate_name, path, segments, fuel) ==
    IF HasValue(sc, IF segments[1] = "crate" THEN crate_name ELSE segments[1])
    THEN Resolve(sc, crate_name,
                 Join(<<sc.scope[IF segments[1] = "crate" THEN crate_name ELSE segments[1]][1].path>>
                        \o Tail(segments), "::"),
                 fuel - 1)
    ELSE path

\* Scope::resolve
Resolve(sc, crate_name, path, fuel) ==
    IF StartsWith(path, "::") THEN path
    ELSE IF fuel = 0 THEN Diverges
    ELSE ResolveSegments(sc, crate_name, path, Split(path, "::"), fuel)

(***************************************************************************)
(* output.rs: emit.  The events are those of pulldown_cmark; the rewriter  *)
(* keeps [out, links, link_idx, indent, lists, alignments, has_newline]    *)
(* and panicked, set where the code reaches unimplemented!().              *)
(***************************************************************************)
NoTag ==
    [t |-> "", lvl |-> 0, lang |-> "", start |-> -1, aligns |-> <<>>, lty |-> "",
     href |-> "", name |-> ""]

Tag(t) == [NoTag EXCEPT !.t = t]

TagHeading(lvl) == [NoTag EXCEPT !.t = "Heading", !.lvl = lvl]

TagFenced(lang) == [NoTag EXCEPT !.t = "CodeBlockFenced", !.lang = lang]

\* Tag::List(start): start is -1 for None
TagList(start) == [NoTag EXCEPT !.t = "List", !.start = start]

TagTable(aligns) == [NoTag EXCEPT !.t = "Table", !.aligns = aligns]

TagLink(lty, href, name) == [NoTag EXCEPT !.t = "Link", !.lty = lty, !.href = href, !.name = name]

TagImage(lty, href, name) == [NoTag EXCEPT !.t = "Image", !.lty = lty, !.href = href, !.name = name]

EvStart(tag) == [e |-> "Start", tag |-> tag, text |-> ""]

EvEnd(tag) == [e |-> "End", tag |-> tag, text |-> ""]

EvText(text) == [e |-> "Text", tag |-> NoTag, text |-> text]

EvCode(text) == [e |-> "Code", tag |-> NoTag, text |-> text]

Ev(e) == [e |-> e, tag |-> NoTag, text |-> ""]

\* the character of code 96, which a string literal cannot hold: the strings of
\* this module write it as ^, a character that no text here uses otherwise
Backtick == "^"

Fence == Backtick \o Backtick \o Backtick

DefaultCodeblockLang == "rust"

RustdocCodeblockFlags ==
    <<"compile_fail", "edition2015", "edition2018", "edition2021", "ignore", "no_run",
      "should_panic">>

RustPrimitives ==
    {"bool", "char", "f32", "f64", "i128", "i16", "i32", "i64", "i8", "isize", "str",
     "u128", "u16", "u32", "u64", "u8", "usize"}

\* the state of emit before the first event
EmitStart ==
    [out |-> "", links |-> <<>>, link_idx |-> 0, indent |-> <<>>, lists |-> <<>>,
     alignments |-> <<>>, has_newline |-> TRUE, panicked |-> FALSE]

Write(st, s) == [st EXCEPT !.out = @ \o s]

\* fn newline
Newline(st) == [st EXCEPT !.out = @ \o "\n" \o Join(st.indent, "")]

RECURSIVE StripFlags(_, _)
StripFlags(lang, flags) ==
    IF Len(flags) = 0 THEN lang ELSE StripFlags(Replace(lang, Head(flags), ""), Tail(flags))

\* the language written for a fenced code block
FencedLang(lang) ==
    IF Replace(StripFlags(lang, RustdocCodeblockFlags), ",", "") = ""
    THEN "rust"
    ELSE Replace(StripFlags(lang, RustdocCodeblockFlags), ",", "")

\* a mutant of HeadingMarks: one `#` for every level of the heading
HeadingMarksSame(lvl) == Join([i \in 1..lvl |-> "#"], "")

\* `for _ in 0..=lvl as u8 { write!(out, "#") }`
HeadingMarks(lvl) == Join([i \in 1..(lvl + 1) |-> "#"], "")

\* Event::Start(tag)
EmitStartTag(st, tag) ==
    IF tag.t = "Paragraph" THEN st
    ELSE IF tag.t = "Heading"
    THEN Write(Newline(st), HeadingMarks(tag.lvl) \o " ")
    ELSE IF tag.t = "BlockQuote"
    THEN Write([Newline(st) EXCEPT !.indent = Append(@, "> ")], "> ")
    ELSE IF tag.t = "CodeBlockIndented"
    THEN Newline(Write(Newline(st), Fence \o DefaultCodeblockLang))
    ELSE IF tag.t = "CodeBlockFenced"
    THEN Newline(Write(Newline(st), Fence \o FencedLang(tag.lang)))
    ELSE IF tag.t = "List" THEN [st EXCEPT !.lists = Append(@, tag.start)]
    ELSE IF tag.t = "Item"
    THEN Write([st EXCEPT !.indent = Append(@, "\t")],
               IF st.lists[Len(st.lists)] >= 0
               THEN " " \o FormatNat(st.lists[Len(st.lists)]) \o ". "
               ELSE " - ")
    ELSE IF tag.t = "FootnoteDefinition" THEN [st EXCEPT !.panicked = TRUE]
    ELSE IF tag.t = "Table" THEN [st EXCEPT !.alignments = tag.aligns]
    ELSE IF tag.t \in {"TableHead", "TableRow"} THEN Write(st, "|")
    ELSE IF tag.t = "TableCell" THEN Write(st, " ")
    ELSE IF tag.t = "Emphasis" THEN Write(st, "*")
    ELSE IF tag.t = "Strong" THEN Write(st, "**")
    ELSE IF tag.t = "Strikethrough" THEN Write(st, "~~")
    ELSE IF tag.t = "Link" /\ tag.lty \in {"Autolink", "Email"} THEN Write(st, "<")
    ELSE IF tag.t = "Link" THEN Write(st, "[")
    ELSE Write(st, "![")

AlignmentCell(a) ==
    IF a = "None" THEN " --- "
    ELSE IF a = "Left" THEN ":--- "
    ELSE IF a = "Center" THEN ":---:"
    ELSE " ---:"

RECURSIVE AlignmentRow(_)
AlignmentRow(aligns) ==
    IF Len(aligns) = 0 THEN ""
    ELSE AlignmentCell(Head(aligns)) \o "|" \o AlignmentRow(Tail(aligns))

\* BTreeMap::insert on links
LinksInsert(links, link, href) ==
    IF link \in DOMAIN links THEN [links EXCEPT ![link] = href] ELSE links @@ (link :> href)

\* the arm of Event::End for a link that is no anchor, and for an image
EmitEndLink(st, tag, link) ==
    IF tag.lty \in {"Inline", "Reference", "Collapsed", "Shortcut"}
    THEN Write([st EXCEPT !.link_idx = @ + 1, !.links = LinksInsert(@, link, tag.href)],
               "][" \o link \o "]")
    ELSE IF tag.lty \in {"ReferenceUnknown", "CollapsedUnknown", "ShortcutUnknown"}
    THEN Write([st EXCEPT !.link_idx = @ + 1, !.links = LinksInsert(@, link, tag.name)],
               "][" \o link \o "]")
    ELSE Write([st EXCEPT !.link_idx = @ + 1], ">")

\* a mutant of EndBlock: one newline
EndBlockOnce(st) == Newline(st)

\* the arm of Event::End for a paragraph and a heading
EndBlock(st) == Newline(Newline(st))

\* Event::End(tag)
EmitEndTag(st, tag) ==
    IF tag.t \in {"Paragraph", "Heading"} THEN EndBlock(st)
    ELSE IF tag.t = "BlockQuote"
    THEN Newline([st EXCEPT !.indent = SubSeq(@, 1, Len(@) - 1)])
    ELSE IF tag.t \in {"CodeBlockIndented", "CodeBlockFenced"}
    THEN Newline(Newline(Write(IF ~st.has_newline THEN Newline(st) ELSE st, Fence)))
    ELSE IF tag.t = "List" THEN Newline(st)
    ELSE IF tag.t = "Item"
    THEN Newline([st EXCEPT !.indent = SubSeq(@, 1, Len(@) - 1)])
    ELSE IF tag.t = "FootnoteDefinition" THEN [st EXCEPT !.panicked = TRUE]
    ELSE IF tag.t = "Table" THEN Newline(st)
    ELSE IF tag.t = "TableHead"
    THEN Newline(Write(Newline(st), "|" \o AlignmentRow(st.alignments)))
    ELSE IF tag.t = "TableRow" THEN Newline(st)
    ELSE IF tag.t = "TableCell" THEN Write(st, " |")
    ELSE IF tag.t = "Emphasis" THEN Write(st, "*")
    ELSE IF tag.t = "Strong" THEN Write(st, "**")
    ELSE IF tag.t = "Strikethrough" THEN Write(st, "~~")
    ELSE IF tag.t = "Link" /\ StartsWith(tag.href, "#")
    THEN Write(st, "](" \o tag.href \o ")")
    ELSE EmitEndLink(st, tag, "__link" \o FormatNat(st.link_idx))

\* a line of str::lines without its line ending
StripCr(line) == IF EndsWith(line, "\r") THEN SubSeq(line, 1, Len(line) - 1) ELSE line

\* str::lines: the lines of the text, a final empty piece is no line
LinesOf(pieces) ==
    [i \in 1..(IF pieces[Len(pieces)] = "" THEN Len(pieces) - 1 ELSE Len(pieces)) |->
        StripCr(pieces[i])]

Lines(text) == LinesOf(Split(text, "\n"))

IsWhitespace(c) == c \in {" ", "\t", "\n", "\r", "\f"}

\* the test of a line that Event::Text omits
IsHiddenLine(line) ==
    \/ line = "#"
    \/ StartsWith(line, "#") /\ IsWhitespace(IF Len(line) >= 2 THEN CharAt(line, 2) ELSE "a")

RECURSIVE EmitLines(_, _, _)
\* the loop over text.lines(): [st, empty]
EmitLines(st, lines, first_line) ==
    IF Len(lines) = 0 THEN [st |-> st, empty |-> first_line]
    ELSE IF IsHiddenLine(Head(lines)) THEN EmitLines(st, Tail(lines), first_line)
    ELSE EmitLines(Write(IF ~first_line THEN Newline(st) ELSE st, Head(lines)),
                   Tail(lines), FALSE)

EmitTextEnd(r, has_newline) ==
    IF has_newline /\ ~r.empty THEN Newline([r.st EXCEPT !.has_newline = has_newline])
    ELSE [r.st EXCEPT !.has_newline = has_newline]

\* Event::Text(text)
EmitText(st, text) == EmitTextEnd(EmitLines(st, Lines(text), TRUE), EndsWith(text, "\n"))

\* the body of the loop of emit on one event
EmitEvent(st, ev) ==
    IF st.panicked THEN st
    ELSE IF ev.e = "Start" THEN EmitStartTag(st, ev.tag)
    ELSE IF ev.e = "End" THEN EmitEndTag(st, ev.tag)
    ELSE IF ev.e = "Text" THEN EmitText(st, ev.text)
    ELSE IF ev.e = "Code" THEN Write(st, Backtick \o ev.text \o Backtick)
    ELSE IF ev.e = "Html" THEN Write(st, ev.text)
    ELSE IF ev.e = "SoftBreak" THEN Write(st, " ")
    ELSE IF ev.e = "HardBreak" THEN Write(st, "<br/>")
    ELSE IF ev.e = "Rule" THEN Write(st, "<hr/>")
    ELSE [st EXCEPT !.panicked = TRUE]

RECURSIVE EmitEvents(_, _)
\* the loop of emit over the events of the parser
EmitEvents(st, events) ==
    IF Len(events) = 0 THEN st ELSE EmitEvents(EmitEvent(st, Head(events)), Tail(events))

\* syn: the characters of an identifier
IdentStart == "ABCDEFGHIJKLMNOPQRSTUVWXYZ_abcdefghijklmnopqrstuvwxyz"

IdentContinue == "0123456789ABCDEFGHIJKLMNOPQRSTUVWXYZ_abcdefghijklmnopqrstuvwxyz"

RECURSIVE AllIn(_, _, _)
AllIn(s, i, alphabet) ==
    IF i > Len(s) THEN TRUE
    ELSE Contains(alphabet, CharAt(s, i)) /\ AllIn(s, i + 1, alphabet)

IsIdent(s) == Len(s) > 0 /\ Contains(IdentStart, CharAt(s, 1)) /\ AllIn(s, 2, IdentContinue)

\* the identifier of a path segment: the segment without its generic arguments
SegmentIdent(seg) ==
    IF EndsWith(seg, ">") /\ Contains(seg, "<") THEN SubSeq(seg, 1, Find(seg, "<") - 1)
    ELSE seg

RECURSIVE AngleDepth(_, _, _)
\* the nesting of `<` and `>` after character i, -1 once a `>` closes nothing or
\* text follows the group that closed
AngleDepth(s, i, depth) ==
    IF i > Len(s) THEN depth
    ELSE IF CharAt(s, i) = "<" THEN AngleDepth(s, i + 1, depth + 1)
    ELSE IF CharAt(s, i) = ">"
    THEN (IF depth = 0 \/ (depth = 1 /\ i < Len(s)) THEN -1 ELSE AngleDepth(s, i + 1, depth - 1))
    ELSE AngleDepth(s, i + 1, depth)

\* a segment is an identifier, or one followed by one group of generic arguments
\* whose angle brackets balance
IsSegment(seg) == IsIdent(SegmentIdent(seg)) /\ AngleDepth(seg, 1, 0) = 0

\* syn::parse_str::<Path> on segments without `::` inside generic arguments:
\* [ok, segments], the segments being the identifiers
PathOfSegments(segs) ==
    [ok |-> \A i \in 1..Len(segs) : IsSegment(segs[i]),
     segments |-> [i \in 1..Len(segs) |-> SegmentIdent(segs[i])]]

SynParsePath(href) ==
    PathOfSegments(Split(IF StartsWith(href, "::") THEN SubSeq(href, 3, Len(href)) ELSE href,
                         "::"))

\* DependencyHash::new
DependencyHashNew(template_hash, rustdoc_hash) ==
    [hash_version |-> 0, markdown_version |-> 0, template_hash |-> template_hash,
     rustdoc_hash |-> rustdoc_hash, dependencies |-> {}]

\* DependencyHash::add_dep: BTreeSet::insert
AddDep(hash, crate_name, version, lib_name) ==
    [hash EXCEPT !.dependencies = @ \cup {DependencyNew(crate_name, version, lib_name)}]

\* #[derive(Serialize)] on DependencyHash: a map of the renamed fields, every
\* dependency a tuple of three
DependencyTupleItem(dep) ==
    CArray(<<CText(dep.crate_name), OptVersionItem(dep.version),
             IF dep.lib_name = NoString THEN CNull ELSE CText(dep.lib_name)>>)

DepTuplesItem(sorted) == CArray([i \in 1..Len(sorted) |-> DependencyTupleItem(sorted[i])])

DependencyHashItem(hash) ==
    CMap(<<CText("v"), CUint(hash.hash_version),
           CText("m"), CUint(hash.markdown_version),
           CText("t"), HashItem(hash.template_hash),
           CText("r"), HashItem(hash.rustdoc_hash),
           CText("d"), DepTuplesItem(SortedDeps(hash.dependencies))>>)

\* base64::encode_config(serde_cbor::to_vec(&dependency_hash), URL_SAFE_NO_PAD)
DependencyHashToken(hash) == Base64Encode(CborBytes(DependencyHashItem(hash)))

\* the closure build_link of emit: [link, hash]
BuildLinkUrl(crate_name, crate_ver, search, lib_name) ==
    IF search # NoString
    THEN "https://docs.rs/" \o crate_name \o "/"
            \o (IF crate_ver # NoVersion THEN FormatVersion(crate_ver) ELSE "latest")
            \o "/" \o lib_name \o "/?search=" \o search
    ELSE "https://crates.io/crates/" \o crate_name
            \o (IF crate_ver # NoVersion THEN "/" \o FormatVersion(crate_ver) ELSE "")

BuildLink(hash, crate_name, crate_ver, search) ==
    [link |-> BuildLinkUrl(crate_name, crate_ver, search, Replace(crate_name, "-", "_")),
     hash |-> AddDep(hash, crate_name, crate_ver, Replace(crate_name, "-", "_"))]

\* input.dependencies.get(key) mapped to (name, Some(version)), or (fallback, None)
DepNameOf(input, key, fallback) ==
    IF key \in DOMAIN input.dependencies THEN input.dependencies[key].crate_name ELSE fallback

DepVersionOf(input, key) ==
    IF key \in DOMAIN input.dependencies THEN input.dependencies[key].version ELSE NoVersion

\* the search text: the identifiers that are not `crate`, joined
SearchOf(segments) == Join(SelectSeq(segments, LAMBDA ident : ident # "crate"), "::")

LinkBuilt(acc, link, built) ==
    [acc EXCEPT !.links = LinksInsert(@, link, built.link), !.hash = built.hash]

\* the body of the loop over the links once the path is parsed
LinkOfPath(acc, input, link, first, search, nsegments) ==
    IF first \in {"std", "alloc", "core"}
    THEN [acc EXCEPT !.links = LinksInsert(@, link,
            "https://doc.rust-lang.org/stable/std/?search=" \o search)]
    ELSE IF first = "crate"
    THEN LinkBuilt(acc, link,
            BuildLink(acc.hash, DepNameOf(input, input.crate_name, input.crate_name),
                      DepVersionOf(input, input.crate_name), search))
    ELSE IF nsegments > 1
    THEN LinkBuilt(acc, link,
            BuildLink(acc.hash, DepNameOf(input, first, first), DepVersionOf(input, first),
                      search))
    ELSE IF first \in RustPrimitives
    THEN [acc EXCEPT !.links = LinksInsert(@, link,
            "https://doc.rust-lang.org/stable/std/primitive." \o first \o ".html")]
    ELSE LinkBuilt(acc, link,
            BuildLink(acc.hash, DepNameOf(input, first, first), DepVersionOf(input, first),
                      NoString))

LinkOfParsed(acc, input, link, path) ==
    IF path.ok
    THEN LinkOfPath(acc, input, link, path.segments[1], SearchOf(path.segments),
                    Len(path.segments))
    ELSE acc

\* href[1..href.len() - 1] panics on the text of one backtick
StripBackticks(href) ==
    IF StartsWith(href, Backtick) /\ EndsWith(href, Backtick)
    THEN SubSeq(href, 2, Len(href) - 1)
    ELSE href

\* the body of the loop over links.keys()
LinkOf(acc, input, link) ==
    IF acc.links[link] = Backtick THEN [acc EXCEPT !.panicked = TRUE]
    ELSE LinkOfParsed(acc, input, link,
            SynParsePath(Resolve(input.scope, input.crate_name,
                                 StripBackticks(acc.links[link]), MaxResolveDepth)))

\* the keys of a BTreeMap<String, _> in ascending order
LeastKey(keys) == CHOOSE k \in keys : \A other \in keys : other = k \/ StrLess(k, other)

RECURSIVE SortedKeysFrom(_, _)
SortedKeysFrom(least, keys) ==
    IF keys = {least} THEN <<least>>
    ELSE <<least>> \o SortedKeysFrom(LeastKey(keys \ {least}), keys \ {least})

SortedKeys(keys) == IF keys = {} THEN <<>> ELSE SortedKeysFrom(LeastKey(keys), keys)

RECURSIVE LinksOf(_, _, _)
LinksOf(acc, input, keys) ==
    IF Len(keys) = 0 THEN acc ELSE LinksOf(LinkOf(acc, input, Head(keys)), input, Tail(keys))

\* the marker emit writes in front of the encoded record
HashKey == " [__cargo_doc2readme_dependencies_hash]: "

RECURSIVE LinkLines(_, _)
LinkLines(links, keys) ==
    IF Len(keys) = 0 THEN ""
    ELSE " [" \o Head(keys) \o "]: " \o links[Head(keys)] \o "\n" \o LinkLines(links, Tail(keys))

\* readme_links
ReadmeLinks(acc) ==
    (IF acc.hash.dependencies # {} THEN HashKey \o DependencyHashToken(acc.hash) \o "\n" ELSE "")
        \o LinkLines(acc.links, SortedKeys(DOMAIN acc.links))

\* Url::parse(repo)?.host_str(): [ok, host]; a text without scheme is no url, a
\* url without `//` or with an empty authority has no host
UrlHostAt(repo, i) ==
    IF i = 0 THEN [ok |-> FALSE, host |-> ""]
    ELSE [ok |-> Split(SubSeq(repo, i + 3, Len(repo)), "/")[1] # "",
          host |-> Split(SubSeq(repo, i + 3, Len(repo)), "/")[1]]

UrlHost(repo) == UrlHostAt(repo, Find(repo, "://"))

\* the tera context of emit
TeraContextOf(input, readme, links, host) ==
    ("crate" :> input.crate_name) @@ ("readme" :> readme) @@ ("links" :> links)
        @@ (IF input.repository # NoString
            THEN ("repository" :> input.repository) @@ ("repository_host" :> host)
            ELSE <<>>)
        @@ (IF input.license # NoString THEN ("license" :> input.license) ELSE <<>>)

RECURSIVE Trim(_)
Trim(s) ==
    IF StartsWith(s, " ") THEN Trim(SubSeq(s, 2, Len(s)))
    ELSE IF EndsWith(s, " ") THEN Trim(SubSeq(s, 1, Len(s) - 1))
    ELSE s

TeraFail == [ok |-> FALSE, out |-> ""]

TeraCons(head, rest) == IF rest.ok THEN [ok |-> TRUE, out |-> head \o rest.out] ELSE TeraFail

RECURSIVE TeraRender(_, _)
\* `{{ name }}` closed at offset close of the text after the braces
TeraVariable(before, after, close, ctx) ==
    IF close = 0 THEN TeraFail
    ELSE IF Trim(SubSeq(after, 1, close - 1)) \notin DOMAIN ctx THEN TeraFail
    ELSE TeraCons(before \o ctx[Trim(SubSeq(after, 1, close - 1))],
                  TeraRender(SubSeq(after, close + 2, Len(after)), ctx))

\* `{% if name != "" %}` body `{% endif %}`
TeraIfBody(before, name, body, end, ctx) ==
    IF end = 0 \/ name \notin DOMAIN ctx THEN TeraFail
    ELSE IF ctx[name] # ""
    THEN TeraCons(before,
                  TeraCons("", TeraRender(SubSeq(body, 1, end - 1)
                                            \o SubSeq(body, end + 11, Len(body)), ctx)))
    ELSE TeraCons(before, TeraRender(SubSeq(body, end + 11, Len(body)), ctx))

TeraIf(before, after, close, ctx) ==
    IF close = 0 THEN TeraFail
    ELSE IF ~(StartsWith(Trim(SubSeq(after, 1, close - 1)), "if ")
              /\ EndsWith(Trim(SubSeq(after, 1, close - 1)), " != \"\""))
    THEN TeraFail
    ELSE TeraIfBody(before,
                    Trim(SubSeq(Trim(SubSeq(after, 1, close - 1)), 4,
                                Len(Trim(SubSeq(after, 1, close - 1))) - 6)),
                    SubSeq(after, close + 2, Len(after)),
                    Find(SubSeq(after, close + 2, Len(after)), "{% endif %}"), ctx)

TeraAt(tpl, var, block, ctx) ==
    IF var = 0 /\ block = 0 THEN [ok |-> TRUE, out |-> tpl]
    ELSE IF block = 0 \/ (var # 0 /\ var < block)
    THEN TeraVariable(SubSeq(tpl, 1, var - 1), SubSeq(tpl, var + 2, Len(tpl)),
                      Find(SubSeq(tpl, var + 2, Len(tpl)), "}}"), ctx)
    ELSE TeraIf(SubSeq(tpl, 1, block - 1), SubSeq(tpl, block + 2, Len(tpl)),
                Find(SubSeq(tpl, block + 2, Len(tpl)), "%}"), ctx)

\* Tera::one_off(template, ctx, false) on templates of text, `{{ name }}` and
\* `{% if name != "" %}...{% endif %}`: [ok, out]
TeraRender(tpl, ctx) == TeraAt(tpl, Find(tpl, "{{"), Find(tpl, "{%"), ctx)

\* the events pulldown_cmark gives for the documentation texts of the runs; any
\* other text here is one paragraph of plain words
MarkdownEvents(rustdoc) ==
    IF rustdoc = "see [b](anyhow::Error)"
    THEN <<EvStart(Tag("Paragraph")), EvText("see "),
           EvStart(TagLink("Inline", "anyhow::Error", "")), EvText("b"),
           EvEnd(TagLink("Inline", "anyhow::Error", "")), EvEnd(Tag("Paragraph"))>>
    ELSE IF rustdoc = "# a"
    THEN <<EvStart(TagHeading(1)), EvText("a"), EvEnd(TagHeading(1))>>
    ELSE IF rustdoc = "[a][b]"
    THEN <<EvStart(Tag("Paragraph")), EvStart(TagLink("ReferenceUnknown", "", "b")),
           EvText("a"), EvEnd(TagLink("ReferenceUnknown", "", "b")), EvEnd(Tag("Paragraph"))>>
    ELSE IF rustdoc = "[a][crate::b]"
    THEN <<EvStart(Tag("Paragraph")), EvStart(TagLink("ReferenceUnknown", "", "crate::b")),
           EvText("a"), EvEnd(TagLink("ReferenceUnknown", "", "crate::b")),
           EvEnd(Tag("Paragraph"))>>
    ELSE <<EvStart(Tag("Paragraph")), EvText(rustdoc), EvEnd(Tag("Paragraph"))>>

EmitFail == [ok |-> FALSE, out |-> ""]

\* the end of emit: the context is filled and the template rendered
EmitRender(input, template, readme, links, host) ==
    IF input.repository # NoString /\ ~host.ok THEN EmitFail
    ELSE TeraRender(template, TeraContextOf(input, readme, links, host.host))

EmitLinks(input, template, readme, acc) ==
    IF acc.panicked THEN EmitFail
    ELSE EmitRender(input, template, readme, ReadmeLinks(acc),
                    IF input.repository # NoString THEN UrlHost(input.repository)
                    ELSE [ok |-> TRUE, host |-> ""])

\* emit from the end of the event loop: dependency_hash is made from the hash of
\* the rustdoc and the hash of the template, in this order, and the links are
\* resolved
EmitBody(input, template, st) ==
    IF st.panicked THEN EmitFail
    ELSE EmitLinks(input, template, st.out,
                   LinksOf([links |-> st.links,
                            hash |-> DependencyHashNew(Blake3(input.rustdoc), Blake3(template)),
                            panicked |-> FALSE],
                           input, SortedKeys(DOMAIN st.links)))

\* output::emit: [ok, out], out being what is written to out_file
Emit(input, template) ==
    EmitBody(input, template, EmitEvents(EmitStart, MarkdownEvents(input.rustdoc)))

(***************************************************************************)
(* verify.rs: check_up2date.  An outcome is [kind, name, rendered]: the    *)
(* Check returned (kind "Err" for an error of emit), the name it carries   *)
(* and whether emit was called.                                            *)
(***************************************************************************)
SearchKey == " [__cargo_doc2readme_dependencies_info]: "

Outcome(kind, name, rendered) == [kind |-> kind, name |-> name, rendered |-> rendered]

\* memchr2(b' ', b'\n', sub).unwrap_or(sub.len()), as the length of the token
TokenEnd(sub, space, newline) ==
    IF space = 0 /\ newline = 0 THEN Len(sub)
    ELSE IF space = 0 THEN newline - 1
    ELSE IF newline = 0 THEN space - 1
    ELSE (IF space < newline THEN space ELSE newline) - 1

DepinfoStrOf(sub) == SubSeq(sub, 1, TokenEnd(sub, Find(sub, " "), Find(sub, "\n")))

\* depinfo_str for the marker found at search_idx
DepinfoStr(check_buf, search_idx) ==
    DepinfoStrOf(SubSeq(check_buf, search_idx + Len(SearchKey), Len(check_buf)))

\* the dependencies of the manifest that the record does not accept
FailingDeps(depinfo, dependencies) ==
    {lib_name \in DOMAIN dependencies :
        ~CheckDependency(depinfo, dependencies[lib_name].crate_name,
                         dependencies[lib_name].req, lib_name, TRUE)}

\* the loop over input.dependencies, a HashMap: its first failing entry is any of
\* the failing entries
CheckDependencies(failing, dependencies) ==
    IF failing = {} THEN {Outcome("UpToDate", "", FALSE)}
    ELSE {Outcome("IncompatibleVersion", dependencies[lib_name].crate_name, FALSE) :
            lib_name \in failing}

\* a mutant of CheckDepinfo: the input is compared before the markdown version
CheckDepinfoInputFirst(depinfo, input, template) ==
    IF ~CheckInput(depinfo, template, input.rustdoc) THEN {Outcome("InputChanged", "", FALSE)}
    ELSE IF CheckOutdated(depinfo) THEN {Outcome("OutdatedMarkdown", "", FALSE)}
    ELSE CheckDependencies(FailingDeps(depinfo, input.dependencies), input.dependencies)

\* check_up2date once the record is decoded
CheckDepinfo(depinfo, input, template) ==
    IF CheckOutdated(depinfo) THEN {Outcome("OutdatedMarkdown", "", FALSE)}
    ELSE IF ~CheckInput(depinfo, template, input.rustdoc)
    THEN {Outcome("InputChanged", "", FALSE)}
    ELSE CheckDependencies(FailingDeps(depinfo, input.dependencies), input.dependencies)

\* a mutant of CheckRendered: a document without marker passes
CheckRenderedAlways(output, check_buf) ==
    IF ~output.ok THEN {Outcome("Err", "", TRUE)} ELSE {Outcome("UpToDate", "", TRUE)}

\* the bytewise comparison that ends check_up2date
CheckRendered(output, check_buf) ==
    IF ~output.ok THEN {Outcome("Err", "", TRUE)}
    ELSE IF output.out = check_buf THEN {Outcome("UpToDate", "", TRUE)}
    ELSE {Outcome("OutputChanged", "", TRUE)}

\* a mutant of CheckDecoded: a token that fails to decode leads to the comparison
\* with a fresh render
CheckDecodedDegrading(decoding, input, template, check_buf) ==
    IF ~decoding.ok THEN CheckRendered(Emit(input, template), check_buf)
    ELSE CheckDepinfo(decoding.info, input, template)

\* check_up2date once the token is decoded
CheckDecoded(decoding, input, template, check_buf) ==
    IF ~decoding.ok THEN {Outcome("InvalidDepInfo", "", FALSE)}
    ELSE CheckDepinfo(decoding.info, input, template)

CheckAt(input, template, check_buf, search_idx) ==
    IF search_idx # 0
    THEN CheckDecoded(Decode(DepinfoStr(check_buf, search_idx)), input, template, check_buf)
    ELSE CheckRendered(Emit(input, template), check_buf)

\* check_up2date: the outcomes it can return
CheckUp2Date(input, template, check_buf) ==
    CheckAt(input, template, check_buf, Find(check_buf, SearchKey))

(***************************************************************************)
(* links.rs: Links::build_link.  A path is [leading_colon, segments], the   *)
(* segments being the identifiers; link_type is a LinkType of input.rs or  *)
(* "" for None.                                                            *)
(***************************************************************************)
\* enum LinkType
LinkTypes ==
    {"Attr", "Const", "Derive", "Enum", "ExternCrate", "Function", "Macro", "Mod", "Static",
     "Struct", "Trait", "TraitAlias", "Type", "Union", "Use", "PubUse", "Primitive"}

\* syn::parse_str::<syn::Path> on a path that parses
LinkPath(href) ==
    [leading_colon |-> StartsWith(href, "::"), segments |-> SynParsePath(href).segments]

\* a mutant of LinksFirst: the crate name is taken as it is
LinksFirstRaw(path, input) ==
    IF Len(path.segments) = 0 THEN ""
    ELSE IF path.segments[1] \in {"crate", "self"} /\ ~path.leading_colon
    THEN input.crate_name
    ELSE path.segments[1]

\* first, once `crate::` and `self::` are resolved
LinksFirst(path, input) ==
    IF Len(path.segments) = 0 THEN ""
    ELSE IF path.segments[1] \in {"crate", "self"} /\ ~path.leading_colon
    THEN Replace(input.crate_name, "-", "_")
    ELSE path.segments[1]

\* segments: the identifiers after the first that are not `crate`
LinksSegments(path) ==
    IF Len(path.segments) = 0 THEN <<>>
    ELSE SelectSeq(Tail(path.segments), LAMBDA ident : ident # "crate")

\* the first segments that name the standard library
StdCrates == {"alloc", "core", "proc_macro", "std", "test"}

\* a mutant of LinksCrateUrl: the version is left out of the crates.io url
LinksCrateUrlBare(crate_name, crate_ver, lib_name, bare) ==
    IF bare THEN "https://crates.io/crates/" \o crate_name
    ELSE "https://docs.rs/" \o crate_name \o "/"
            \o (IF crate_ver # NoVersion THEN FormatVersion(crate_ver) ELSE "latest")
            \o "/" \o lib_name

\* the base url of a crate: crates.io for a path of the crate segment alone
\* (bare), docs.rs else
LinksCrateUrl(crate_name, crate_ver, lib_name, bare) ==
    IF bare
    THEN "https://crates.io/crates/" \o crate_name
            \o (IF crate_ver # NoVersion THEN "/" \o FormatVersion(crate_ver) ELSE "")
    ELSE "https://docs.rs/" \o crate_name \o "/"
            \o (IF crate_ver # NoVersion THEN FormatVersion(crate_ver) ELSE "latest")
            \o "/" \o lib_name

\* a mutant of LinksBaseUrl: every standard library crate is linked as std
LinksBaseUrlStd(first, segments, input) ==
    IF first \in StdCrates THEN "https://doc.rust-lang.org/stable/std"
    ELSE LinksCrateUrl(DepNameOf(input, first, first), DepVersionOf(input, first),
                       Replace(DepNameOf(input, first, first), "-", "_"), Len(segments) = 0)

\* base_url
LinksBaseUrl(first, segments, input) ==
    IF first \in StdCrates THEN "https://doc.rust-lang.org/stable/" \o first
    ELSE LinksCrateUrl(DepNameOf(input, first, first), DepVersionOf(input, first),
                       Replace(DepNameOf(input, first, first), "-", "_"), Len(segments) = 0)

\* self.deps after the match on first
LinksDeps(deps, first, input) ==
    IF first \in StdCrates THEN deps
    ELSE AddDependency(deps, DepNameOf(input, first, first), DepVersionOf(input, first),
                       Replace(DepNameOf(input, first, first), "-", "_"))

\* a mutant of LinksPage: a module is linked like the other kinds
LinksPageModAsFile(link_type, last) ==
    IF link_type = "Const" THEN "constant." \o last \o ".html"
    ELSE IF link_type = "Enum" THEN "enum." \o last \o ".html"
    ELSE IF link_type = "Macro" THEN "macro." \o last \o ".html"
    ELSE IF link_type = "Mod" THEN "mod." \o last \o ".html"
    ELSE IF link_type = "Primitive" THEN "primitive." \o last \o ".html"
    ELSE IF link_type = "Static" THEN "static." \o last \o ".html"
    ELSE IF link_type = "Struct" THEN "struct." \o last \o ".html"
    ELSE IF link_type = "Trait" THEN "trait." \o last \o ".html"
    ELSE IF link_type = "Type" THEN "type." \o last \o ".html"
    ELSE ""

\* the page of the last segment for the link types that have one, "" for the
\* others and for None
LinksPage(link_type, last) ==
    IF link_type = "Const" THEN "constant." \o last \o ".html"
    ELSE IF link_type = "Enum" THEN "enum." \o last \o ".html"
    ELSE IF link_type = "Macro" THEN "macro." \o last \o ".html"
    ELSE IF link_type = "Mod" THEN last \o "/index.html"
    ELSE IF link_type = "Primitive" THEN "primitive." \o last \o ".html"
    ELSE IF link_type = "Static" THEN "static." \o last \o ".html"
    ELSE IF link_type = "Struct" THEN "struct." \o last \o ".html"
    ELSE IF link_type = "Trait" THEN "trait." \o last \o ".html"
    ELSE IF link_type = "Type" THEN "type." \o last \o ".html"
    ELSE ""

\* segments_uri of the segments in front of the last
SegmentsUri(front) == IF Len(front) = 0 THEN "" ELSE Join(front, "/") \o "/"

\* "best-effort link generation": the url of base_url, segments and link_type
LinksUrl(base_url, segments, link_type) ==
    IF Len(segments) = 0 THEN base_url
    ELSE IF LinksPage(link_type, segments[Len(segments)]) # ""
    THEN base_url \o "/" \o SegmentsUri(SubSeq(segments, 1, Len(segments) - 1))
            \o LinksPage(link_type, segments[Len(segments)])
    ELSE base_url \o "/?search=" \o Join(segments, "::")

\* Links::build_link: [url, deps], deps being self.deps after the call
LinksBuildLink(deps, path, link_type, input) ==
    [url |-> LinksUrl(LinksBaseUrl(LinksFirst(path, input), LinksSegments(path), input),
                      LinksSegments(path), link_type),
     deps |-> LinksDeps(deps, LinksFirst(path, input), input)]

(***************************************************************************)
(* verify.rs: Check::print_to, Check::is_ok and the exit code of a Check.  *)
(***************************************************************************)
\* Check::print_to: the severity of the one report it prints
CheckSeverity(kind) ==
    IF kind = "UpToDate" THEN "info"
    ELSE IF kind = "InvalidDepInfo" THEN "warning"
    ELSE "error"

\* Check::is_ok
CheckIsOk(kind) == kind = "UpToDate"

\* impl From<Check> for ExitCode
ExitCodeOf(kind) == IF CheckIsOk(kind) THEN "SUCCESS" ELSE "FAILURE"

(***************************************************************************)
(* The state.                                                              *)
(***************************************************************************)
VARIABLES
    \* the dependency-info accumulator of one render (Links::deps)
    info,
    \* the number of add_dependency calls made on it
    nadds,
    \* the encoded record, "" before encode
    token,
    \* the result of decoding the token: [done, ok, info]
    decoded,
    \* the last check_dependency call on the decoded record and its result
    depres,
    \* the current run: InputFile, template text, the existing readme and where
    \* it came from, the outcome of check_up2date and whether it rendered
    input, template, check_buf, origin, check, rendered,
    \* the package whose scope is read, the scope under construction (Scope::scope
    \* and Scope::privmods), the items of the file and how many of them the loop
    \* has walked, the position in read_scope_from_file and the last resolve call
    pkg, scope, privmods, file, walked, phase, resolved,
    \* the diagnostics read_scope_from_file reports to
    diagnostics,
    \* one run of Links::build_link after another: the InputFile, the accumulator
    \* Links::deps, the number of calls made and the last call with its result
    linput, ldeps, ncalls, built,
    \* one run of emit, step by step: the events of the parser and how many the
    \* loop has consumed, the locals of the loop (em), the placeholders in the
    \* order they were recorded, the position in emit, the keys left to the loop
    \* over the links with what it made so far (eacc), and readme_links
    events, consumed, em, seen, ephase, keys, eacc, readme_links,
    \* one run of main: what the run is given (the mode, how reading the crate
    \* code goes, the file at the output path before the run), the position in
    \* main, the file at the output path, and how the run ends (the exit code
    \* and the severity of what Check::print reports)
    mrun, mphase, out_file, status

codecVars == <<info, nadds, token, decoded, depres>>

verifyVars == <<input, template, check_buf, origin, check, rendered>>

scopeVars == <<pkg, scope, privmods, file, walked, phase, resolved, diagnostics>>

linkVars == <<linput, ldeps, ncalls, built>>

emitVars == <<events, consumed, em, seen, ephase, keys, eacc, readme_links>>

mainVars == <<mrun, mphase, out_file, status>>

vars == <<info, nadds, token, decoded, depres, input, template, check_buf, origin, check,
          rendered, pkg, scope, privmods, file, walked, phase, resolved, diagnostics, linput, ldeps,
          ncalls, built, events, consumed, em, seen, ephase, keys, eacc, readme_links,
          mrun, mphase, out_file, status>>

(***************************************************************************)
(* The codec: one accumulator is built, encoded, decoded and queried; a     *)
(* record without dependencies is also verified in a readme.               *)
(***************************************************************************)
V100 == Version(1, 0, 0)

V101 == Version(1, 0, 1)

V110 == Version(1, 1, 0)

V200 == Version(2, 0, 0)

\* template texts and documentation texts of the runs
TemplatePlain == "{{ readme }}{{ links }}"

TemplateTitled == "# {{ crate }}\n{{ readme }}{{ links }}"

RustdocLinked == "see [b](anyhow::Error)"

RustdocPlain == "plain words"

\* the calls Links::build_link makes on the accumulator, and calls with a lib name
\* that is not derived from the crate name
AddCalls ==
    {<<"anyhow", v, l>> : v \in {NoVersion, V101, V200}, l \in {"anyhow", "any_how"}}
        \cup {<<"b-c", v, "b_c">> : v \in {NoVersion, V101, V200}}

CheckCalls ==
    {<<n, v, l, am>> : n \in {"anyhow", "b-c"}, v \in {NoVersion, V100, V110},
                       l \in {"anyhow", "b_c"}, am \in BOOLEAN}

NotDecoded == [done |-> FALSE, ok |-> FALSE, info |-> NoInfo]

NoDepres ==
    [called |-> FALSE, crate_name |-> "", version |-> NoVersion, lib_name |-> "",
     allow_missing |-> FALSE, result |-> FALSE]

NoInput ==
    [crate_name |-> "", crate_version |-> NoVersion, repository |-> NoString,
     license |-> NoString, rustdoc |-> "", dependencies |-> <<>>, scope |-> ScopeEmpty]

NoCheck == [kind |-> "none", name |-> ""]

\* where the readme came from: written by emit (current: from the input and the
\* template of this run), carrying the record info, carrying a damaged token, or
\* without any token
NoOrigin == [by |-> "none", current |-> FALSE, info |-> NoInfo]

IdleVerify ==
    /\ input = NoInput
    /\ template = ""
    /\ check_buf = ""
    /\ origin = NoOrigin
    /\ check = NoCheck
    /\ rendered = FALSE

IdleScope ==
    /\ pkg = [name |-> "", edition |-> 0]
    /\ scope = <<>>
    /\ privmods = {}
    /\ file = <<>>
    /\ walked = 0
    /\ phase = "idle"
    /\ resolved = [called |-> FALSE, path |-> "", result |-> ""]
    /\ diagnostics = DiagnosticNew

IdleCodec ==
    /\ info = NoInfo
    /\ nadds = 0
    /\ token = ""
    /\ decoded = NotDecoded
    /\ depres = NoDepres

NotBuilt == [called |-> FALSE, path |-> "", link_type |-> "", url |-> ""]

IdleLinks ==
    /\ linput = NoInput
    /\ ldeps = NoInfo
    /\ ncalls = 0
    /\ built = NotBuilt

NoAcc == [links |-> <<>>, hash |-> DependencyHashNew(ZeroHash, ZeroHash), panicked |-> FALSE]

IdleEmit ==
    /\ events = <<>>
    /\ consumed = 0
    /\ em = EmitStart
    /\ seen = <<>>
    /\ ephase = "idle"
    /\ keys = <<>>
    /\ eacc = NoAcc
    /\ readme_links = ""

NoFile == [exists |-> FALSE, content |-> ""]

NoRun == [check |-> FALSE, code |-> "none", existing |-> NoFile]

NoStatus == [exit_code |-> "none", severity |-> "none"]

IdleMain ==
    /\ mrun = NoRun
    /\ mphase = "idle"
    /\ out_file = NoFile
    /\ status = NoStatus

\* DependencyInfoImpl::new, by this generator (markdown version 0) or by one
\* whose markdown version is 1
CodecInit ==
    /\ \E mv \in {MarkdownVersion, 1}, t \in {TemplatePlain, TemplateTitled},
          r \in {RustdocLinked, RustdocPlain} :
            info = DependencyInfoImplNew(mv, t, r)
    /\ nadds = 0
    /\ token = ""
    /\ decoded = NotDecoded
    /\ depres = NoDepres
    /\ IdleVerify
    /\ IdleScope
    /\ IdleLinks
    /\ IdleEmit
    /\ IdleMain

\* DependencyInfo::add_dependency
DoAddDependency ==
    /\ token = ""
    /\ nadds < MaxDeps
    /\ \E call \in AddCalls : info' = AddDependency(info, call[1], call[2], call[3])
    /\ nadds' = nadds + 1
    /\ UNCHANGED <<token, decoded, depres>>
    /\ UNCHANGED <<verifyVars, scopeVars, linkVars, emitVars, mainVars>>

\* DependencyInfo::encode
DoEncode ==
    /\ token = ""
    /\ token' = Encode(info)
    /\ UNCHANGED <<info, nadds, decoded, depres>>
    /\ UNCHANGED <<verifyVars, scopeVars, linkVars, emitVars, mainVars>>

\* DependencyInfo::decode
DoDecode ==
    /\ token # ""
    /\ ~decoded.done
    /\ LET d == Decode(token) IN decoded' = [done |-> TRUE, ok |-> d.ok, info |-> d.info]
    /\ UNCHANGED <<info, nadds, token, depres>>
    /\ UNCHANGED <<verifyVars, scopeVars, linkVars, emitVars, mainVars>>

\* DependencyInfo::check_dependency on the decoded record
DoCheckDependency ==
    /\ decoded.done
    /\ decoded.ok
    /\ ~depres.called
    /\ \E call \in CheckCalls :
        depres' = [called |-> TRUE, crate_name |-> call[1], version |-> call[2],
                   lib_name |-> call[3], allow_missing |-> call[4],
                   result |-> CheckDependency(decoded.info, call[1], call[2], call[3], call[4])]
    /\ UNCHANGED <<info, nadds, token, decoded>>
    /\ UNCHANGED <<verifyVars, scopeVars, linkVars, emitVars, mainVars>>

(***************************************************************************)
(* Reading the scope of a file and resolving paths in it.                  *)
(***************************************************************************)
\* the items a file is made of
FileItems ==
    {Item("Struct", TRUE, "Vec"),
     Item("Struct", TRUE, "X"),
     Item("Fn", TRUE, "f"),
     Item("Fn", TRUE, "vec"),
     Item("Struct", TRUE, "f"),
     ItemMacro(TRUE, "mac"),
     ItemMacro(FALSE, "hid"),
     Item("Mod", FALSE, "m"),
     Item("Mod", TRUE, "p"),
     ItemUse(FALSE, UsePath("dep", UseName("Vec"))),
     ItemUse(FALSE, UsePath("m", UseName("X"))),
     ItemUse(TRUE, UsePath("m", UseName("X"))),
     ItemUse(TRUE, UsePath("m", UseRename("X", "Y"))),
     ItemUse(TRUE, UsePath("self", UsePath("m", UseName("X")))),
     ItemUse(TRUE, UsePath("crate", UsePath("m", UseName("X")))),
     ItemUse(TRUE, UsePath("p", UseName("X")))}

\* files of imports that name themselves, of glob imports and of a derive macro
\* without a name
ExtraFiles ==
    {<<ItemUse(FALSE, UsePath("foo", UseName("foo")))>>,
     <<ItemUse(TRUE, UsePath("foo", UseName("foo")))>>,
     <<ItemUse(FALSE, UsePath("a", UseRename("b", "a")))>>,
     <<ItemUse(FALSE, UsePath("a", UseName("b"))), ItemUse(FALSE, UsePath("b", UseName("a")))>>,
     <<Item("Fn", TRUE, "foo"), ItemUse(FALSE, UsePath("foo", UseName("foo")))>>,
     <<ItemUse(FALSE, UsePath("a", UsePath("b", UseGlob)))>>,
     <<ItemUse(TRUE, UsePath("a", UseGroup(<<UsePath("b", UseGlob), UseName("c")>>)))>>,
     <<ItemUse(FALSE, UsePath("a", UseGroup(<<UseName("b"), UseRename("c", "foo")>>)))>>,
     <<[Item("Fn", TRUE, "d") EXCEPT !.attr = "proc_macro_derive"],
       ItemUse(FALSE, UsePath("a", UseName("c")))>>}

\* the paths handed to resolve
ResolvePaths ==
    {"X", "Y", "Vec", "f", "f()", "mac!", "vec!", "X::new", "String", "dep::Vec",
     "::std::vec::Vec", "foo", "a", "b", "c", "a::new"}

Packages == {[name |-> "my-crate", edition |-> 2021], [name |-> "mc", edition |-> 2018]}

NotResolved == [called |-> FALSE, path |-> "", result |-> ""]

RECURSIVE SeqsUpTo(_, _)
SeqsUpTo(S, n) ==
    IF n = 0 THEN {<<>>}
    ELSE SeqsUpTo(S, n - 1) \cup {Append(q, x) : q \in {r \in SeqsUpTo(S, n - 1) : Len(r) = n - 1}, x \in S}

\* read_scope_from_file up to its loop: the scope is the prelude of the edition
ScopeInit ==
    /\ pkg \in Packages
    /\ file \in SeqsUpTo(FileItems, MaxItems) \cup ExtraFiles
    /\ scope = ScopePrelude(pkg.edition).scope
    /\ privmods = {}
    /\ walked = 0
    /\ phase = "items"
    /\ resolved = NotResolved
    /\ diagnostics = DiagnosticNew
    /\ IdleCodec
    /\ IdleVerify
    /\ IdleLinks
    /\ IdleEmit
    /\ IdleMain

\* one iteration of the loop over file.items
DoWalkItem ==
    /\ phase = "items"
    /\ walked < Len(file)
    /\ LET sc == WalkItem([scope |-> scope, privmods |-> privmods],
                          SanitizeCrateName(pkg.name), file[walked + 1])
       IN  /\ scope' = sc.scope
           /\ privmods' = sc.privmods
    /\ walked' = walked + 1
    /\ diagnostics' = WalkItemDiagnostics(diagnostics, file[walked + 1])
    /\ UNCHANGED <<pkg, file, phase, resolved>>
    /\ UNCHANGED <<codecVars, verifyVars, linkVars, emitVars, mainVars>>

\* the end of read_scope_from_file: the loop is over, the privmod imports are
\* removed and the scope is returned
DoRemovePrivmodImports ==
    /\ phase = "items"
    /\ walked = Len(file)
    /\ scope' = RemovePrivmodImports([scope |-> scope, privmods |-> privmods],
                                     SanitizeCrateName(pkg.name)).scope
    /\ phase' = "read"
    /\ UNCHANGED <<pkg, privmods, file, walked, resolved, diagnostics>>
    /\ UNCHANGED <<codecVars, verifyVars, linkVars, emitVars, mainVars>>

\* Scope::resolve on the scope read, with the crate name emit passes
DoResolve ==
    /\ phase = "read"
    /\ \E path \in ResolvePaths :
        resolved' = [called |-> TRUE, path |-> path,
                     result |-> Resolve([scope |-> scope, privmods |-> privmods],
                                        pkg.name, path, MaxResolveDepth)]
    /\ UNCHANGED <<pkg, scope, privmods, file, walked, phase, diagnostics>>
    /\ UNCHANGED <<codecVars, verifyVars, linkVars, emitVars, mainVars>>

ScopeNext == DoWalkItem \/ DoRemovePrivmodImports \/ DoResolve

SpecScope == ScopeInit /\ [][ScopeNext]_vars

(***************************************************************************)
(* Properties of the scope.                                                *)
(***************************************************************************)
IsSuffix(old, new) ==
    Len(old) <= Len(new) /\ SubSeq(new, Len(new) - Len(old) + 1, Len(new)) = old

RECURSIVE IsSubsequence(_, _)
IsSubsequence(part, whole) ==
    IF Len(part) = 0 THEN TRUE
    ELSE IF Len(whole) = 0 THEN FALSE
    ELSE IF Head(part) = Head(whole) THEN IsSubsequence(Tail(part), Tail(whole))
    ELSE IsSubsequence(part, Tail(whole))

IsSingleName(path) == ~Contains(path, "::")

\* what the front binding of a name gives
FrontResult(name) ==
    IF StartsWith(scope[name][1].path, "::") THEN scope[name][1].path
    ELSE Resolve([scope |-> scope, privmods |-> privmods], pkg.name,
                 scope[name][1].path, MaxResolveDepth - 1)

\* C9 (shadowing): walking an item only puts bindings in front of a name's list,
\* the earlier bindings stay behind them in their order; the pass over private
\* modules removes bindings and reorders none; and resolving a name that has
\* bindings gives what its front binding, the most recently inserted one the
\* list holds, gives.
C9_Shadowing ==
    /\ [][DoWalkItem =>
            \A name \in DOMAIN scope :
                name \in DOMAIN scope' /\ IsSuffix(scope[name], scope'[name])]_vars
    /\ [][DoRemovePrivmodImports =>
            /\ DOMAIN scope' = DOMAIN scope
            /\ \A name \in DOMAIN scope : IsSubsequence(scope'[name], scope[name])]_vars
    /\ [](resolved.called /\ IsSingleName(resolved.path)
            /\ resolved.path \in DOMAIN scope /\ Len(scope[resolved.path]) > 0
          => resolved.result = FrontResult(resolved.path))

\* a local declaration and an import of Vec lie in front of the prelude entry, and
\* Vec resolves to the last of them
C9_Witness ==
    /\ resolved.called
    /\ resolved.path = "Vec"
    /\ Len(scope["Vec"]) >= 3
    /\ scope["Vec"][Len(scope["Vec"])].path = "::std::vec::Vec"
    /\ scope["Vec"][1].path # "::std::vec::Vec"
    /\ resolved.result = scope["Vec"][1].path

RECURSIVE UsePrefix(_)
\* the path segments in front of the leaf of a use tree without groups
UsePrefix(tree) ==
    IF tree.t = "Path" THEN <<tree.ident>> \o UsePrefix(tree.sub[1]) ELSE <<>>

RECURSIVE UseLeafName(_)
\* the local name a use tree without groups gives, "" for a glob
UseLeafName(tree) ==
    IF tree.t = "Path" THEN UseLeafName(tree.sub[1])
    ELSE IF tree.t = "Name" THEN tree.ident
    ELSE IF tree.t = "Rename" THEN tree.rename
    ELSE ""

\* `pub use m::X`, `pub use self::m::X` or `pub use crate::m::X`, with or without
\* a rename, giving the local name
IsReExportThrough(i, m, name) ==
    /\ i.item = "Use"
    /\ i.public
    /\ UsePrefix(i.tree) \in {<<m>>, <<"self", m>>, <<"crate", m>>}
    /\ UseLeafName(i.tree) = name

\* the item enters a binding of the name
BindsName(i, name) ==
    IF i.item = "Use" THEN UseLeafName(i.tree) = name
    ELSE IF i.item = "Fn" THEN i.public /\ name \in {i.ident, i.ident \o "()"}
    ELSE IF i.item = "Macro" THEN i.exported /\ name \in {i.ident, i.ident \o "!"}
    ELSE i.public /\ i.ident = name

IsPrivateModule(i) == i.item = "Mod" /\ ~i.public

\* the file declares the private module m somewhere, item k re-exports through m
\* under the name, and no later item binds the name
ReExportedAt(k, name) ==
    /\ \E j \in 1..Len(file) :
        IsPrivateModule(file[j]) /\ IsReExportThrough(file[k], file[j].ident, name)
    /\ \A j \in (k + 1)..Len(file) : ~BindsName(file[j], name)

\* C10 (private-module transparency): a name that is publicly re-exported from a
\* private module of the file, in any of the three written forms, renamed or
\* not, the module declared before or after the import, resolves to the
\* crate-root path ::<crate>::<name>.
C10_PrivateModuleTransparency ==
    phase = "read" /\ resolved.called
    => \A k \in 1..Len(file) :
        ReExportedAt(k, resolved.path)
        => resolved.result = "::" \o SanitizeCrateName(pkg.name) \o "::" \o resolved.path

\* the part of C10 the code keeps: the form `pub use m::X`
C10_PlainForm ==
    phase = "read" /\ resolved.called
    => \A k \in 1..Len(file) :
        ReExportedAt(k, resolved.path) /\ Len(UsePrefix(file[k].tree)) = 1
        => resolved.result = "::" \o SanitizeCrateName(pkg.name) \o "::" \o resolved.path

\* `mod m; pub use self::m::X;`: X resolves to the path through m
C10_Failing ==
    /\ phase = "read"
    /\ resolved.called
    /\ resolved.path = "X"
    /\ \E k \in 1..Len(file) :
        ReExportedAt(k, "X") /\ UsePrefix(file[k].tree) = <<"self", "m">>
    /\ resolved.result = "self::m::X"

\* the front binding of a key of the scope, the one a reference to it resolves by
FrontBinding(key) ==
    IF key \in DOMAIN scope /\ Len(scope[key]) > 0 THEN scope[key][1]
    ELSE Binding("", "")

ResolveNow(path) ==
    Resolve([scope |-> scope, privmods |-> privmods], pkg.name, path, MaxResolveDepth)

\* item k is the last of the file to bind the bare name or its suffixed form
LastToBind(k, name, suffix) ==
    \A j \in (k + 1)..Len(file) :
        ~BindsName(file[j], name) /\ ~BindsName(file[j], name \o suffix)

\* the bare name and its suffixed form both resolve to the path, with the kind
BothResolve(name, suffix, ty, path) ==
    /\ FrontBinding(name) = Binding(ty, path)
    /\ FrontBinding(name \o suffix) = Binding(ty, path)
    /\ ResolveNow(name) = path
    /\ ResolveNow(name \o suffix) = path

\* the names the prelude of the edition enters as macros
PreludeMacros ==
    {name \in DOMAIN ScopePrelude(pkg.edition).scope :
        /\ ScopePrelude(pkg.edition).scope[name][1].ty = "Macro"
        /\ ~EndsWith(name, "!")}

TemplateMarked == "{{ readme }}{{ links }}" \o SearchKey \o "none\n"

TemplateHost == "{{ repository_host }}\n{{ readme }}{{ links }}"

Templates == {TemplatePlain, TemplateTitled, TemplateMarked, TemplateHost}

Rustdocs == {RustdocPlain, RustdocLinked}

Repositories == {NoString, "https://github.com/msrd0/cargo-doc2readme", "github.com/msrd0"}

\* input::Dependency; the requirement is the version it asks for
ManifestDep(crate_name, req, version) ==
    [crate_name |-> crate_name, req |-> req, version |-> version]

\* InputFile::dependencies: lib name to dependency
Manifests ==
    {<<>>,
     "anyhow" :> ManifestDep("anyhow", V100, V101),
     "anyhow" :> ManifestDep("anyhow", V110, V110),
     ("anyhow" :> ManifestDep("anyhow", V110, V110)) @@ ("b_c" :> ManifestDep("b_c", V110, V110)),
     "any_how" :> ManifestDep("anyhow", V100, V101)}

InputOf(repository, rustdoc, dependencies) ==
    [crate_name |-> "my-crate", crate_version |-> V100, repository |-> repository,
     license |-> NoString, rustdoc |-> rustdoc, dependencies |-> dependencies,
     scope |-> ScopePrelude(2021)]

\* the inputs of the runs: every manifest without repository, every repository
\* without dependencies
Inputs ==
    {InputOf(NoString, r, d) : r \in Rustdocs, d \in Manifests}
        \cup {InputOf(repo, r, <<>>) : repo \in Repositories, r \in Rustdocs}

\* what emit gives for every input and template of the runs
EmitResults == [run \in Inputs \X Templates |-> Emit(run[1], run[2])]

\* the dependency sets of the records
StoredDeps ==
    {{},
     {DependencyNew("anyhow", V101, "anyhow")},
     {DependencyNew("anyhow", NoVersion, "anyhow")},
     {DependencyNew("anyhow", V200, "anyhow")},
     {DependencyNew("anyhow", V101, "any_how")},
     {DependencyNew("anyhow", V101, "anyhow"), DependencyNew("b-c", V101, "b_c")}}

\* the records of depinfo.rs, of this generator and of one with markdown version 1
Records ==
    {[DependencyInfoImplNew(mv, t, r) EXCEPT !.dependencies = deps] :
        mv \in {MarkdownVersion, 1}, t \in {TemplatePlain, TemplateTitled}, r \in Rustdocs,
        deps \in StoredDeps}

\* what follows the token in a readme: the link lines, more words, or nothing
TokenTails == {"\n [__link0]: https://crates.io/crates/anyhow\n", " words", ""}

RecordDoc(rec, tail) == [doc |-> "words\n\n" \o SearchKey \o Encode(rec) \o tail, info |-> rec]

\* readmes that carry a record: each record before the link lines, the records
\* without dependencies also before words and at the end
RecordDocs ==
    {RecordDoc(rec, "\n [__link0]: https://crates.io/crates/anyhow\n") : rec \in Records}
        \cup {RecordDoc(rec, tail) : rec \in {r \in Records : r.dependencies = {}},
                                     tail \in TokenTails}

\* tokens that are no record: no base64, nothing, cut short, the map emit writes
DamagedTokens ==
    {"!!!", "", SubSeq(Encode(DependencyInfoNew(TemplatePlain, RustdocPlain)), 1, 10),
     DependencyHashToken(DependencyHashNew(Blake3(RustdocPlain), Blake3(TemplatePlain)))}

DamagedDocs ==
    {"words\n\n" \o SearchKey \o t \o tail : t \in DamagedTokens, tail \in TokenTails}

\* readmes without marker that emit did not write
PlainDocs == {"", "words\n\n"}

VerifyInit ==
    /\ input \in Inputs
    /\ template \in Templates
    /\ check_buf = ""
    /\ origin = NoOrigin
    /\ check = NoCheck
    /\ rendered = FALSE
    /\ IdleCodec
    /\ IdleScope
    /\ IdleLinks
    /\ IdleEmit
    /\ IdleMain

\* main, the write branch: the readme is what emit wrote for some input and
\* template, those of this run or others
DoEmit ==
    /\ origin.by = "none"
    /\ \E run \in Inputs \X Templates :
        /\ EmitResults[run].ok
        /\ check_buf' = EmitResults[run].out
        /\ origin' = [by |-> "emit", current |-> run = <<input, template>>, info |-> NoInfo]
    /\ UNCHANGED <<input, template, check, rendered>>
    /\ UNCHANGED <<codecVars, scopeVars, linkVars, emitVars, mainVars>>

\* the readme is one that carries a record
DoRecord ==
    /\ origin.by = "none"
    /\ \E d \in RecordDocs :
        /\ check_buf' = d.doc
        /\ origin' = [by |-> "record", current |-> FALSE, info |-> d.info]
    /\ UNCHANGED <<input, template, check, rendered>>
    /\ UNCHANGED <<codecVars, scopeVars, linkVars, emitVars, mainVars>>

\* the readme is one whose token is damaged
DoDamage ==
    /\ origin.by = "none"
    /\ check_buf' \in DamagedDocs
    /\ origin' = [by |-> "damaged", current |-> FALSE, info |-> NoInfo]
    /\ UNCHANGED <<input, template, check, rendered>>
    /\ UNCHANGED <<codecVars, scopeVars, linkVars, emitVars, mainVars>>

\* the readme is written by hand
DoHandWrite ==
    /\ origin.by = "none"
    /\ check_buf' \in PlainDocs
    /\ origin' = [by |-> "hand", current |-> FALSE, info |-> NoInfo]
    /\ UNCHANGED <<input, template, check, rendered>>
    /\ UNCHANGED <<codecVars, scopeVars, linkVars, emitVars, mainVars>>

\* main, the check branch: check_up2date on the readme
DoCheckUp2Date ==
    /\ origin.by # "none"
    /\ check = NoCheck
    /\ \E outcome \in CheckUp2Date(input, template, check_buf) :
        /\ check' = [kind |-> outcome.kind, name |-> outcome.name]
        /\ rendered' = outcome.rendered
    /\ UNCHANGED <<input, template, check_buf, origin>>
    /\ UNCHANGED <<codecVars, scopeVars, linkVars, emitVars, mainVars>>

Next == DoEmit \/ DoRecord \/ DoDamage \/ DoHandWrite \/ DoCheckUp2Date

Spec == VerifyInit /\ [][Next]_vars

\* check_up2date on a readme that carries the encoded record, when the record
\* has no dependencies, for a manifest and a template
DoCheckRecord ==
    /\ token # ""
    /\ InfoIsEmpty(info)
    /\ ~decoded.done
    /\ check = NoCheck
    /\ \E i \in {x \in Inputs : x.repository = NoString}, t \in {TemplatePlain, TemplateTitled} :
        /\ input' = i
        /\ template' = t
        /\ check_buf' = RecordDoc(info, "\n").doc
        /\ \E outcome \in CheckUp2Date(i, t, RecordDoc(info, "\n").doc) :
            /\ check' = [kind |-> outcome.kind, name |-> outcome.name]
            /\ rendered' = outcome.rendered
    /\ origin' = [by |-> "record", current |-> FALSE, info |-> info]
    /\ UNCHANGED <<codecVars, scopeVars, linkVars, emitVars, mainVars>>

CodecNext == DoAddDependency \/ DoEncode \/ DoDecode \/ DoCheckDependency \/ DoCheckRecord

SpecCodec == CodecInit /\ [][CodecNext]_vars

(***************************************************************************)
(* Properties of the verifier.                                             *)
(***************************************************************************)
HasMarker == Contains(check_buf, SearchKey)

Checked == check # NoCheck

\* the entry of the record that governs a dependency of the manifest does not
\* fit it: another lib name, no version, or a version below the one asked for
Incompatible(rec, lib_name, dep) ==
    \E e \in rec.dependencies :
        /\ e.crate_name = dep.crate_name
        /\ \/ DepLibName(e) # lib_name
           \/ e.version = NoVersion
           \/ VersionLess(e.version, dep.req)

IncompatibleNames(rec, dependencies) ==
    {dependencies[l].crate_name : l \in {x \in DOMAIN dependencies : Incompatible(rec, x, dependencies[x])}}

InputMatches(rec) ==
    rec.template_hash = Blake3(template) /\ rec.rustdoc_hash = Blake3(input.rustdoc)

\* C1: on a readme with the marker, check_up2date returns InvalidDepInfo when the
\* token is no record; else OutdatedMarkdown when the record's markdown version is
\* not the generator's; else InputChanged when a stored hash is not the hash of the
\* current template or rustdoc; else IncompatibleVersion with the name of a
\* dependency of the manifest that the record does not fit; else UpToDate.
C1_Priority ==
    Checked /\ HasMarker =>
        IF origin.by # "record" THEN check.kind = "InvalidDepInfo"
        ELSE IF origin.info.markdown_version # MarkdownVersion
        THEN check.kind = "OutdatedMarkdown"
        ELSE IF ~InputMatches(origin.info) THEN check.kind = "InputChanged"
        ELSE IF IncompatibleNames(origin.info, input.dependencies) # {}
        THEN /\ check.kind = "IncompatibleVersion"
             /\ check.name \in IncompatibleNames(origin.info, input.dependencies)
        ELSE check = [kind |-> "UpToDate", name |-> ""]

\* a record with changed input and a dependency that does not fit gives InputChanged
C1_Witness ==
    /\ Checked
    /\ origin.by = "record"
    /\ origin.info.markdown_version = MarkdownVersion
    /\ ~InputMatches(origin.info)
    /\ IncompatibleNames(origin.info, input.dependencies) # {}
    /\ check.kind = "InputChanged"

\* C2: on a readme without the marker check_up2date calls emit on the current
\* input and template and, when emit succeeds, returns UpToDate if the bytes are
\* those of the readme and OutputChanged if not (an error of emit is returned as
\* it is); on a readme with the marker it never returns OutputChanged and never
\* calls emit.
C2_Rerender ==
    Checked =>
        IF ~HasMarker
        THEN /\ rendered
             /\ IF ~EmitResults[<<input, template>>].ok THEN check.kind = "Err"
                ELSE IF EmitResults[<<input, template>>].out = check_buf
                THEN check.kind = "UpToDate"
                ELSE check.kind = "OutputChanged"
        ELSE ~rendered /\ check.kind # "OutputChanged"

\* a readme without marker that has the bytes of a fresh render
C2_Witness ==
    /\ Checked
    /\ ~HasMarker
    /\ rendered
    /\ check_buf # ""
    /\ EmitResults[<<input, template>>].out = check_buf
    /\ check.kind = "UpToDate"

\* C3, as the code has it: on a readme whose marker is followed by a token that
\* is no record, check_up2date returns InvalidDepInfo and does not call emit.
C3_InvalidDepInfo ==
    Checked /\ origin.by = "damaged" => check.kind = "InvalidDepInfo" /\ ~rendered

C3_Witness ==
    /\ Checked
    /\ origin.by = "damaged"
    /\ HasMarker
    /\ EmitResults[<<input, template>>].ok
    /\ check.kind = "InvalidDepInfo"

\* C3, as it is claimed: on a readme whose marker is followed by a token that is
\* no record, the result is that of the comparison with a fresh render.
C3_Degrades ==
    Checked /\ origin.by = "damaged" =>
        /\ rendered
        /\ check.kind \in {"UpToDate", "OutputChanged", "Err"}

\* C7: check_up2date on the bytes emit wrote, with the input and the template
\* emit had, returns UpToDate.
C7_EmitThenCheck ==
    Checked /\ origin.by = "emit" /\ origin.current => check.kind = "UpToDate"

\* the part of C7 the code keeps: the readmes of emit that do not hold the
\* verifier's marker
C7_WithoutMarker ==
    Checked /\ origin.by = "emit" /\ origin.current /\ ~HasMarker => check.kind = "UpToDate"

(***************************************************************************)
(* Properties of the codec.                                                *)
(***************************************************************************)
\* the caret requirement of cargo: v is not below r and agrees with r on the
\* leftmost part of r that is not zero
SemverCompatible(v, r) ==
    /\ ~VersionLess(v, r)
    /\ v.major = r.major
    /\ r.major = 0 => v.minor = r.minor
    /\ r.major = 0 /\ r.minor = 0 => v.patch = r.patch

StoredFor(rec, crate_name) == {e \in rec.dependencies : e.crate_name = crate_name}

TheStored(rec, crate_name) == CHOOSE e \in StoredFor(rec, crate_name) : TRUE

\* the record holds one entry of the crate asked for, under the lib name asked for
AskedOfOne ==
    /\ depres.called
    /\ Cardinality(StoredFor(decoded.info, depres.crate_name)) = 1
    /\ DepLibName(TheStored(decoded.info, depres.crate_name)) = depres.lib_name

\* C4: for a dependency the record holds, check_dependency is true when no
\* version is asked for, false when one is asked for and none is stored, and
\* else true exactly when the stored version is compatible with the one asked
\* for, neither too old nor too new.
C4_Compatible ==
    AskedOfOne =>
        depres.result =
            (\/ depres.version = NoVersion
             \/ /\ TheStored(decoded.info, depres.crate_name).version # NoVersion
                /\ SemverCompatible(TheStored(decoded.info, depres.crate_name).version,
                                    depres.version))

\* the part of C4 the code keeps: a stored version below the one asked for, or no
\* stored version, is refused, and no other
C4_NotOlder ==
    AskedOfOne =>
        depres.result =
            (\/ depres.version = NoVersion
             \/ /\ TheStored(decoded.info, depres.crate_name).version # NoVersion
                /\ ~VersionLess(TheStored(decoded.info, depres.crate_name).version,
                                depres.version))

\* C5: check_dependency gives allow_missing for a crate the record does not
\* hold, and a record without dependencies, with the generator's markdown version
\* and the hashes of the current template and rustdoc, is UpToDate whatever the
\* manifest holds.
C5_MissingAllowed ==
    /\ depres.called /\ StoredFor(decoded.info, depres.crate_name) = {}
        => depres.result = depres.allow_missing
    /\ Checked /\ origin.by = "record" /\ origin.info.dependencies = {}
            /\ origin.info.markdown_version = MarkdownVersion /\ InputMatches(origin.info)
        => check = [kind |-> "UpToDate", name |-> ""]

\* a record without dependencies is verified against a manifest of two
\* dependencies, then asked for a crate with allow_missing false
C5_Witness ==
    /\ Checked
    /\ origin.info.dependencies = {}
    /\ Cardinality(DOMAIN input.dependencies) = 2
    /\ check.kind = "UpToDate"
    /\ depres.called
    /\ ~depres.allow_missing
    /\ ~depres.result

\* C6: decode(encode(info)) succeeds and gives info: the hashes, the markdown
\* version and the dependency set, which is all check_input reads; and
\* check_dependency on the result answers as on info.
C6_RoundTrip ==
    decoded.done =>
        /\ decoded.ok
        /\ decoded.info.template_hash = info.template_hash
        /\ decoded.info.rustdoc_hash = info.rustdoc_hash
        /\ decoded.info.markdown_version = info.markdown_version
        /\ decoded.info.dependencies = info.dependencies
        /\ depres.called =>
            depres.result = CheckDependency(info, depres.crate_name, depres.version,
                                            depres.lib_name, depres.allow_missing)

\* a record of two dependencies, one without version and one with an alias, has
\* made the round trip
C6_Witness ==
    /\ decoded.done
    /\ decoded.ok
    /\ decoded.info.markdown_version # MarkdownVersion
    /\ \E a, b \in decoded.info.dependencies :
        a.version = NoVersion /\ b.version # NoVersion /\ b.lib_name # NoString
    /\ depres.called
    /\ depres.result

\* C4, the failing call: the record holds version 2.0.0 of the crate, version
\* 1.0.0 is asked for under the stored lib name, and check_dependency is true
C4_Failing ==
    /\ AskedOfOne
    /\ TheStored(decoded.info, depres.crate_name).version = V200
    /\ depres.version = V100
    /\ depres.result

\* C7, the failing check: the readme emit made of a template that holds the
\* verifier's marker is checked against the same input and template and is
\* not UpToDate
C7_Failing ==
    /\ Checked
    /\ origin.by = "emit"
    /\ origin.current
    /\ HasMarker
    /\ template = TemplateMarked
    /\ check.kind = "InvalidDepInfo"

(***************************************************************************)
(* One run of emit, step by step: the loop over the events, the loop over  *)
(* the links and the link lines.                                           *)
(***************************************************************************)
\* the number of blocks of a documentation text
MaxBlocks == 2

\* the number of links of a paragraph of links
MaxLinks == 11

\* the events pulldown_cmark gives for blocks of markdown
Paragraph(inner) == <<EvStart(Tag("Paragraph"))>> \o inner \o <<EvEnd(Tag("Paragraph"))>>

Heading(lvl) == <<EvStart(TagHeading(lvl)), EvText("a"), EvEnd(TagHeading(lvl))>>

Fenced(lang, texts) == <<EvStart(TagFenced(lang))>> \o texts \o <<EvEnd(TagFenced(lang))>>

Linked(tag, text) == <<EvStart(tag), EvText(text), EvEnd(tag)>>

\* `[text][name]` and `[name]` without a definition: broken_link_callback gives
\* the reference as the title
Reference(name) == Linked(TagLink("ReferenceUnknown", "", name), "a")

\* a code block with hidden lines, every line its own text event
CodeHidden ==
    Fenced("", <<EvText("x\n"), EvText("# h\n"), EvText("#\n"), EvText("#[no_std]\n")>>)

\* the same lines in one text event, with an empty line
CodeHiddenOneText == Fenced("rust", <<EvText("x\n# h\n\n#[no_std]\n")>>)

\* ```ignore
CodeIgnore == Fenced("ignore", <<EvText("y\n"), EvText("# s\n")>>)

CodeIndented ==
    <<EvStart(Tag("CodeBlockIndented")), EvText("a\n"), EvEnd(Tag("CodeBlockIndented"))>>

ListOf(inner) ==
    <<EvStart(TagList(-1)), EvStart(Tag("Item"))>> \o inner
        \o <<EvEnd(Tag("Item")), EvEnd(TagList(-1))>>

\* ` - in a list:` followed by a code block with a hidden line
ListWithCode ==
    ListOf(<<EvText("a")>> \o Fenced("rust", <<EvText("# #[derive(Clone)]\n"), EvText("s\n")>>))

Table ==
    <<EvStart(TagTable(<<"None", "Center">>)),
      EvStart(Tag("TableHead")),
      EvStart(Tag("TableCell")), EvText("a"), EvEnd(Tag("TableCell")),
      EvStart(Tag("TableCell")), EvText("b"), EvEnd(Tag("TableCell")),
      EvEnd(Tag("TableHead")),
      EvStart(Tag("TableRow")),
      EvStart(Tag("TableCell")), EvText("1"), EvEnd(Tag("TableCell")),
      EvStart(Tag("TableCell")), EvText("2"), EvEnd(Tag("TableCell")),
      EvEnd(Tag("TableRow")),
      EvEnd(TagTable(<<"None", "Center">>))>>

BlockQuote ==
    <<EvStart(Tag("BlockQuote"))>> \o Paragraph(<<EvText("a")>>) \o <<EvEnd(Tag("BlockQuote"))>>

\* the blocks the texts are put together from
CoreBlocks ==
    {Paragraph(<<EvText("a")>>), Heading(1), CodeHidden, CodeIgnore, ListOf(<<EvText("a")>>),
     Table, BlockQuote, Paragraph(Reference("Option")), Paragraph(Reference("Option<String>"))}

RECURSIVE Concat(_)
Concat(blocks) == IF Len(blocks) = 0 THEN <<>> ELSE Head(blocks) \o Concat(Tail(blocks))

\* a list with the start number of its first item (-1 when unordered) and the
\* events of its items
ListItems(start, items) ==
    <<EvStart(TagList(start))>>
        \o Concat([k \in 1..Len(items) |->
                    <<EvStart(Tag("Item"))>> \o items[k] \o <<EvEnd(Tag("Item"))>>])
        \o <<EvEnd(TagList(start))>>

\* the lists: `1. a / 3. b`, `3. a / 1. b`, `- a / - b`, a list in the first item
\* of another (`- a / (1. b) / - c` and `3. a / (- b) / 4. c`), and an unordered
\* list after an ordered one
ListBlocks ==
    {ListItems(1, <<<<EvText("a")>>, <<EvText("b")>>>>),
     ListItems(3, <<<<EvText("a")>>, <<EvText("b")>>>>),
     ListItems(-1, <<<<EvText("a")>>, <<EvText("b")>>>>),
     ListItems(-1, <<<<EvText("a")>> \o ListItems(1, <<<<EvText("b")>>>>), <<EvText("c")>>>>),
     ListItems(3, <<<<EvText("a")>> \o ListItems(-1, <<<<EvText("b")>>>>), <<EvText("c")>>>>),
     ListItems(2, <<<<EvText("a")>>>>) \o ListItems(-1, <<<<EvText("b")>>>>)}

\* blocks that make a text of their own
OtherBlocks ==
    {Heading(lvl) : lvl \in 2..6}
        \cup ListBlocks
        \cup {CodeHiddenOneText, CodeIndented, ListWithCode,
              \* ` - # a`: a heading in a list item
              ListOf(Heading(1)),
              \* `\# x`: text after an escaped sharp
              Paragraph(<<EvText("# x")>>),
              Paragraph(<<EvText("a"), Ev("SoftBreak"), EvText("b")>>),
              Paragraph(Linked(TagLink("Inline", "https://example.org", ""), "a")),
              Paragraph(Linked(TagLink("Inline", "#a", ""), "a")),
              Paragraph(Linked(TagLink("Autolink", "https://example.org", ""),
                               "https://example.org")
                            \o Reference("Vec")),
              Paragraph(Linked(TagLink("Email", "noreply@example.org", ""),
                               "noreply@example.org")),
              Paragraph(Linked(TagImage("Inline", "https://example.org/i.png", ""), "a")),
              \* `![a](#a)`
              Paragraph(Linked(TagImage("Inline", "#a", ""), "a")),
              Paragraph(Reference(Backtick \o "Option<String>" \o Backtick)),
              Paragraph(Reference("Option<HashMap<String, Vec<String>>>")
                            \o Reference("Option")),
              Paragraph(Reference("Vec<String>") \o Reference("Vec")),
              \* a link into a crate
              Paragraph(Reference("anyhow::Error")),
              Paragraph(Reference("Option<String") \o Reference("Option<String>>"))}

\* the references of a paragraph of links
RefNames == <<"Option", "Vec", "String", "u8">>

RECURSIVE References(_)
References(n) ==
    IF n = 0 THEN <<>>
    ELSE References(n - 1) \o Reference(RefNames[((n - 1) % Len(RefNames)) + 1])

\* the documentation texts, as events
EmitDocs ==
    {Concat(blocks) : blocks \in SeqsUpTo(CoreBlocks, MaxBlocks)}
        \cup OtherBlocks
        \cup {Paragraph(References(n)) : n \in 1..MaxLinks}

\* the input of the run: the prelude of edition 2021, no dependencies
EmitInput == InputOf(NoString, RustdocPlain, <<>>)

EmitInit ==
    /\ events \in EmitDocs
    /\ consumed = 0
    /\ em = EmitStart
    /\ seen = <<>>
    /\ ephase = "events"
    /\ keys = <<>>
    /\ eacc = NoAcc
    /\ readme_links = ""
    /\ IdleCodec
    /\ IdleVerify
    /\ IdleScope
    /\ IdleLinks
    /\ IdleMain

\* one iteration of `for ev in parser`
DoEmitEvent ==
    /\ ephase = "events"
    /\ consumed < Len(events)
    /\ ~em.panicked
    /\ em' = EmitEvent(em, events[consumed + 1])
    /\ consumed' = consumed + 1
    /\ seen' = seen \o SortedKeys(DOMAIN em'.links \ DOMAIN em.links)
    /\ UNCHANGED <<events, ephase, keys, eacc, readme_links>>
    /\ UNCHANGED <<codecVars, verifyVars, scopeVars, linkVars, mainVars>>

\* the events are over: dependency_hash is made and links.keys() collected
DoCollectKeys ==
    /\ ephase = "events"
    /\ consumed = Len(events)
    /\ ~em.panicked
    /\ eacc' = [links |-> em.links,
                hash |-> DependencyHashNew(Blake3(EmitInput.rustdoc), Blake3(TemplatePlain)),
                panicked |-> FALSE]
    /\ keys' = SortedKeys(DOMAIN em.links)
    /\ ephase' = "links"
    /\ UNCHANGED <<events, consumed, em, seen, readme_links>>
    /\ UNCHANGED <<codecVars, verifyVars, scopeVars, linkVars, mainVars>>

\* one iteration of the loop over the links
DoLinkOf ==
    /\ ephase = "links"
    /\ Len(keys) > 0
    /\ ~eacc.panicked
    /\ eacc' = LinkOf(eacc, EmitInput, Head(keys))
    /\ keys' = Tail(keys)
    /\ UNCHANGED <<events, consumed, em, seen, ephase, readme_links>>
    /\ UNCHANGED <<codecVars, verifyVars, scopeVars, linkVars, mainVars>>

\* readme_links is written: the record, then a line for every link
DoReadmeLinks ==
    /\ ephase = "links"
    /\ Len(keys) = 0
    /\ ~eacc.panicked
    /\ readme_links' = ReadmeLinks(eacc)
    /\ ephase' = "done"
    /\ UNCHANGED <<events, consumed, em, seen, keys, eacc>>
    /\ UNCHANGED <<codecVars, verifyVars, scopeVars, linkVars, mainVars>>

EmitNext == DoEmitEvent \/ DoCollectKeys \/ DoLinkOf \/ DoReadmeLinks

SpecEmit == EmitInit /\ [][EmitNext]_vars

(***************************************************************************)
(* Properties of emit.                                                     *)
(***************************************************************************)
\* the reference a placeholder was recorded with, without its backticks
RawOf(key) == StripBackticks(em.links[key])

\* long is the identifier short followed by a group of generic arguments whose
\* angle brackets balance
IsGenericOf(long, short) ==
    /\ IsIdent(short)
    /\ Len(long) > Len(short) + 1
    /\ SubSeq(long, 1, Len(short) + 1) = short \o "<"
    /\ AngleDepth(long, 1, 0) = 0

\* the angle brackets of the reference do not balance
IsUnbalanced(ref) == Contains(ref, "<") /\ AngleDepth(ref, 1, 0) # 0

\* C12: once the links are resolved, a reference X<G> with balanced generic
\* arguments has the link of the reference X of the same text, and a reference
\* whose angle brackets do not balance is left as it was written.
C12_GenericsIgnored ==
    ephase = "done" =>
        /\ \A long, short \in DOMAIN em.links :
            IsGenericOf(RawOf(long), RawOf(short)) => eacc.links[long] = eacc.links[short]
        /\ \A key \in DOMAIN em.links :
            IsUnbalanced(RawOf(key)) => eacc.links[key] = em.links[key]

\* the part of C12 the code keeps: the unbalanced reference
C12_UnbalancedKept ==
    ephase = "done" =>
        \A key \in DOMAIN em.links :
            IsUnbalanced(RawOf(key)) => eacc.links[key] = em.links[key]

\* a text refers to Option and to Option<String>: the first is linked to the
\* standard library, the second to a crate named Option
C12_Failing ==
    /\ ephase = "done"
    /\ \E long, short \in DOMAIN em.links :
        /\ RawOf(short) = "Option"
        /\ RawOf(long) = "Option<String>"
        /\ eacc.links[short] = "https://doc.rust-lang.org/stable/std/?search=std::option::Option"
        /\ eacc.links[long] = "https://crates.io/crates/Option"

(***************************************************************************)
(* Links::build_link is called on resolved paths, one call after another   *)
(* on the same Links.                                                      *)
(***************************************************************************)
\* the number of build_link calls of a run
MaxCalls == 2

V123 == Version(1, 2, 3)

\* the dependencies resolve_dependencies gives for the package my-crate 1.2.3:
\* the package itself under its published name, and the dependencies of its
\* manifest under their names with `-` replaced by `_`
OwnPackage == "my_crate" :> ManifestDep("my-crate", V123, V123)

LinkInputs ==
    {[InputOf(NoString, RustdocPlain, table) EXCEPT !.crate_version = V123] :
        table \in {OwnPackage,
                   OwnPackage @@ ("anyhow" :> ManifestDep("anyhow", V100, V101))
                              @@ ("b_c" :> ManifestDep("b_c", V110, V110))
                              @@ ("bar" :> ManifestDep("foo", V100, V100))}}

\* the calls: some paths with every link type and with none, others with the
\* link type their resolution gives
LinkCalls ==
    ({"::std::option::Option", "unknown::a::X"} \X (LinkTypes \cup {""}))
        \cup ({"crate::MY_STATIC", "anyhow"} \X {"", "Static", "Struct", "Mod", "Function"})
        \cup ({"::std::clone::Clone::clone", "std", "self::MY_STATIC", "::my_crate::MY_STATIC",
               "my_crate::a::B", "my_crate", "anyhow::Error", "b_c::X", "::crate::X",
               "::alloc::vec::Vec", "proc_macro::TokenStream", "test::Bencher", "unknown",
               "::core::fmt", "bar::X", "foo::X"} \X {""})
        \cup {<<"::std::u8", "Primitive">>, <<"std::u8::MAX", "Const">>, <<"std::u8", "Mod">>,
              <<"std::ffi::c_char", "Type">>, <<"::std::vec", "Macro">>,
              <<"::std::string::String", "Struct">>, <<"::std::clone::Clone", "Trait">>,
              <<"::core::fmt", "Mod">>, <<"unknown", "Struct">>, <<"my_crate", "Mod">>}

\* Links::new
LinksInit ==
    /\ linput \in LinkInputs
    /\ ldeps = DependencyInfoNew(TemplatePlain, linput.rustdoc)
    /\ ncalls = 0
    /\ built = NotBuilt
    /\ IdleCodec
    /\ IdleVerify
    /\ IdleScope
    /\ IdleEmit
    /\ IdleMain

\* Links::build_link
DoBuildLink ==
    /\ ncalls < MaxCalls
    /\ \E call \in LinkCalls :
        LET link == LinksBuildLink(ldeps, LinkPath(call[1]), call[2], linput)
        IN  /\ built' = [called |-> TRUE, path |-> call[1], link_type |-> call[2],
                         url |-> link.url]
            /\ ldeps' = link.deps
    /\ ncalls' = ncalls + 1
    /\ UNCHANGED linput
    /\ UNCHANGED <<codecVars, verifyVars, scopeVars, emitVars, mainVars>>

LinksNext == DoBuildLink

SpecLinks == LinksInit /\ [][LinksNext]_vars

(***************************************************************************)
(* Properties of Links::build_link.                                        *)
(***************************************************************************)
\* the segments of the path of the last call, and those after the first
BuiltSegments == LinkPath(built.path).segments

BuiltRest == Tail(BuiltSegments)

BuiltLast == BuiltSegments[Len(BuiltSegments)]

\* the crate the path of the last call starts with: the own crate for
\* `crate` and `self` without a leading `::`
BuiltCrate ==
    IF BuiltSegments[1] \in {"crate", "self"} /\ ~StartsWith(built.path, "::")
    THEN Replace(linput.crate_name, "-", "_")
    ELSE BuiltSegments[1]

\* the link types with a page of their own, and the name of the page
PagedKinds ==
    {"Const", "Enum", "Macro", "Mod", "Primitive", "Static", "Struct", "Trait", "Type"}

PageStem ==
    [kind \in PagedKinds \ {"Mod"} |->
        IF kind = "Const" THEN "constant"
        ELSE IF kind = "Enum" THEN "enum"
        ELSE IF kind = "Macro" THEN "macro"
        ELSE IF kind = "Primitive" THEN "primitive"
        ELSE IF kind = "Static" THEN "static"
        ELSE IF kind = "Struct" THEN "struct"
        ELSE IF kind = "Trait" THEN "trait"
        ELSE "type"]

PageName(kind, last) ==
    IF kind = "Mod" THEN last \o "/index.html" ELSE PageStem[kind] \o "." \o last \o ".html"

StdHost == "https://doc.rust-lang.org/stable/"

\* the last call was on a path into the standard library
BuiltStd == built.called /\ BuiltSegments[1] \in StdCrates

\* C13 as stated: a path into the standard library with segments after the
\* first is always linked by a search url on the standard library host, made
\* of the segments after the first joined by `::`, whatever the link type.
C13_StdSearchOnly ==
    BuiltStd /\ BuiltRest # <<>>
        => /\ StartsWith(built.url, StdHost)
           /\ EndsWith(built.url, "/?search=" \o Join(BuiltRest, "::"))

\* C13, amended: a path into the standard library is linked under
\* https://doc.rust-lang.org/stable/<first segment> and registers no
\* dependency; with segments after the first the link is the search url of
\* these segments joined by `::` when the link type is none or has no page of
\* its own, and the page of the link type otherwise.
C13_StdLinks ==
    /\ \A dep \in ldeps.dependencies : dep.crate_name \notin StdCrates
    /\ BuiltStd =>
        /\ BuiltRest = <<>> => built.url = StdHost \o BuiltSegments[1]
        /\ BuiltRest # <<>> /\ built.link_type \notin PagedKinds
            => built.url = StdHost \o BuiltSegments[1] \o "/?search=" \o Join(BuiltRest, "::")
        /\ BuiltRest # <<>> /\ built.link_type \in PagedKinds
            => /\ StartsWith(built.url, StdHost \o BuiltSegments[1] \o "/")
               /\ EndsWith(built.url, "/" \o PageName(built.link_type, BuiltLast))
               /\ ~Contains(built.url, "?search=")

\* a path into the standard library was linked to the page of its link type
C13_Witness ==
    /\ built.called
    /\ built.path = "::std::option::Option"
    /\ built.link_type = "Enum"
    /\ built.url = "https://doc.rust-lang.org/stable/std/option/enum.Option.html"
    /\ ldeps.dependencies = {}

\* C14: with a segment after the crate segment the url is made from the link
\* type alone: for Const, Enum, Macro, Mod, Primitive, Static, Struct, Trait
\* and Type it is the base url, the segments between the first and the last
\* joined by `/`, and the page of the link type for the last segment; for
\* every other link type and for none it is the base url and a search for the
\* segments after the first joined by `::`. The paths of the tests get the
\* urls the tests require.
C14_UrlShapes ==
    built.called /\ BuiltRest # <<>> =>
        LET base == LinksBaseUrl(BuiltCrate, BuiltRest, linput)
            between == SubSeq(BuiltRest, 1, Len(BuiltRest) - 1)
        IN  /\ built.link_type \in PagedKinds
                => built.url = base \o "/" \o Join([i \in DOMAIN between |-> between[i] \o "/"], "")
                                    \o PageName(built.link_type, BuiltLast)
            /\ built.link_type \notin PagedKinds
                => built.url = base \o "/?search=" \o Join(BuiltRest, "::")
            /\ built.path = "::std::option::Option" /\ built.link_type = "Enum"
                => built.url = "https://doc.rust-lang.org/stable/std/option/enum.Option.html"
            /\ built.path = "::std::u8" /\ built.link_type = "Primitive"
                => built.url = "https://doc.rust-lang.org/stable/std/primitive.u8.html"
            /\ built.path = "::std::clone::Clone::clone" /\ built.link_type = ""
                => built.url = "https://doc.rust-lang.org/stable/std/?search=clone::Clone::clone"

\* a module of a crate was linked to its index page
C14_Witness ==
    /\ built.called
    /\ built.path = "unknown::a::X"
    /\ built.link_type = "Mod"
    /\ built.url = "https://docs.rs/unknown/latest/unknown/a/X/index.html"

\* the path of the last call starts with `crate` or `self` without a leading
\* `::`, or with the name of the own crate
BuiltSelfReference ==
    /\ built.called
    /\ \/ BuiltSegments[1] \in {"crate", "self"} /\ ~StartsWith(built.path, "::")
       \/ BuiltSegments[1] = Replace(linput.crate_name, "-", "_")

\* C15: a path that starts with `crate` or `self` (no leading `::`) or with
\* the name of the own crate is linked to the own package: its name and
\* version are those of the dependency table under the crate name with `-`
\* replaced by `_`, and the own package is among the recorded dependencies.
\* For my-crate 1.2.3, `crate::MY_STATIC` as a static is linked to
\* https://docs.rs/my-crate/1.2.3/my_crate/static.MY_STATIC.html.
C15_SelfReference ==
    BuiltSelfReference =>
        LET lib_name == Replace(linput.crate_name, "-", "_")
            own == linput.dependencies[lib_name]
        IN  /\ BuiltRest # <<>>
                => StartsWith(built.url, "https://docs.rs/" \o own.crate_name \o "/"
                                \o FormatVersion(own.version) \o "/" \o lib_name \o "/")
            /\ BuiltRest = <<>>
                => built.url = "https://crates.io/crates/" \o own.crate_name \o "/"
                                    \o FormatVersion(own.version)
            /\ [crate_name |-> own.crate_name, version |-> own.version, lib_name |-> lib_name]
                    \in ldeps.dependencies
            /\ built.path = "crate::MY_STATIC" /\ built.link_type = "Static"
                => built.url = "https://docs.rs/my-crate/1.2.3/my_crate/static.MY_STATIC.html"

\* `crate::MY_STATIC` was linked as a static of my-crate 1.2.3
C15_Witness ==
    /\ built.called
    /\ built.path = "crate::MY_STATIC"
    /\ built.link_type = "Static"
    /\ built.url = "https://docs.rs/my-crate/1.2.3/my_crate/static.MY_STATIC.html"
    /\ [crate_name |-> "my-crate", version |-> V123, lib_name |-> "my_crate"]
            \in ldeps.dependencies

\* the path of the last call starts with a crate that is neither of the
\* standard library nor a key of the dependency table
BuiltUnknown ==
    /\ built.called
    /\ BuiltCrate \notin StdCrates
    /\ BuiltCrate \notin DOMAIN linput.dependencies

\* C16: a path whose first segment is neither of the standard library nor a
\* key of the dependency table is linked with the segment as the crate name
\* and no version (`latest` on docs.rs, no suffix on crates.io), and the crate
\* is recorded under that name without a version. A path of the crate segment
\* alone is linked to crates.io, with `/<version>` exactly when the version is
\* known, whatever the link type.
C16_NeverFails ==
    /\ BuiltUnknown =>
        /\ BuiltRest # <<>>
            => StartsWith(built.url, "https://docs.rs/" \o BuiltCrate \o "/latest/"
                                        \o BuiltCrate \o "/")
        /\ BuiltRest = <<>> => built.url = "https://crates.io/crates/" \o BuiltCrate
        /\ [crate_name |-> BuiltCrate, version |-> NoVersion, lib_name |-> NoString]
                \in ldeps.dependencies
    /\ built.called /\ BuiltCrate \notin StdCrates /\ BuiltRest = <<>> =>
        LET known == BuiltCrate \in DOMAIN linput.dependencies
            name == IF known THEN linput.dependencies[BuiltCrate].crate_name ELSE BuiltCrate
        IN  built.url = "https://crates.io/crates/" \o name
                \o (IF known THEN "/" \o FormatVersion(linput.dependencies[BuiltCrate].version)
                    ELSE "")

\* a path into a crate that is no dependency was linked, and the crate recorded
C16_Witness ==
    /\ built.called
    /\ built.path = "unknown::a::X"
    /\ built.link_type = ""
    /\ built.url = "https://docs.rs/unknown/latest/unknown/?search=a::X"
    /\ [crate_name |-> "unknown", version |-> NoVersion, lib_name |-> NoString]
            \in ldeps.dependencies

\* a path of a dependency alone was linked to the version of the dependency
C16_BareWitness ==
    /\ built.called
    /\ built.path = "anyhow"
    /\ built.link_type = "Struct"
    /\ built.url = "https://crates.io/crates/anyhow/1.0.1"

(***************************************************************************)
(* Properties of the loop of emit over the events.                         *)
(***************************************************************************)
\* the event the next iteration of the loop takes
NextEvent == events[consumed + 1]

\* a step of the loop on a text event
TextStep == ephase = "events" /\ consumed' = consumed + 1 /\ NextEvent.e = "Text"

IsCodeBlockEvent(ev) ==
    ev.e \in {"Start", "End"} /\ ev.tag.t \in {"CodeBlockIndented", "CodeBlockFenced"}

\* the start of the code block that is open after n events, 0 if none is
OpenCodeBlock(evs, n) ==
    LET marks == {i \in 1..n : IsCodeBlockEvent(evs[i])}
    IN  IF marks = {} THEN 0
        ELSE LET last == CHOOSE i \in marks : \A j \in marks : j <= i
             IN  IF evs[last].e = "Start" THEN last ELSE 0

\* the code block is tagged `ignore`
IsIgnoreBlock(ev) ==
    ev.tag.t = "CodeBlockFenced"
        /\ \E i \in DOMAIN Split(ev.tag.lang, ",") : Split(ev.tag.lang, ",")[i] = "ignore"

\* the next event lies in a code block that is not tagged `ignore`
InProcessedCode ==
    /\ OpenCodeBlock(events, consumed) # 0
    /\ ~IsIgnoreBlock(events[OpenCodeBlock(events, consumed)])

InIgnoredCode ==
    /\ OpenCodeBlock(events, consumed) # 0
    /\ IsIgnoreBlock(events[OpenCodeBlock(events, consumed)])

\* a line is `#` or starts with `#` and whitespace
IsSharpLine(line) ==
    \/ line = "#"
    \/ Len(line) >= 2 /\ SubSeq(line, 1, 1) = "#" /\ IsWhitespace(CharAt(line, 2))

\* the lines written one below the other at the indentation of st, with the
\* line end of the text if it has one
LinesWritten(st, lines, text) ==
    Join(lines, "\n" \o Join(st.indent, ""))
        \o (IF EndsWith(text, "\n") /\ Len(lines) > 0 THEN "\n" \o Join(st.indent, "") ELSE "")

\* C17 as stated: a line of a text is left out if and only if it lies in a
\* code block that is not tagged `ignore` and is `#` or starts with `#` and
\* whitespace; every other line is written as it is: the other lines of such
\* a block, every line of a block tagged `ignore`, every line outside of code
\* blocks.
C17_HiddenLines ==
    [][TextStep =>
        em'.out = em.out \o LinesWritten(em,
                                SelectSeq(Lines(NextEvent.text),
                                          LAMBDA line : ~(InProcessedCode /\ IsSharpLine(line))),
                                NextEvent.text)]_vars

\* C17, the part that holds: in a code block that is not tagged `ignore` the
\* lines that are `#` or start with `#` and whitespace are left out and the
\* other lines are written as they are; a text without such a line is written
\* as it is wherever it lies.
C17_CodeLines ==
    [][TextStep /\ (InProcessedCode
                        \/ \A i \in DOMAIN Lines(NextEvent.text) :
                                ~IsSharpLine(Lines(NextEvent.text)[i])) =>
        em'.out = em.out \o LinesWritten(em,
                                SelectSeq(Lines(NextEvent.text),
                                          LAMBDA line : ~IsSharpLine(line)),
                                NextEvent.text)]_vars

\* the line `# s` of a code block tagged `ignore` was taken, and is not in
\* the output
C17_Failing ==
    /\ ephase = "events"
    /\ consumed > 0
    /\ events[consumed] = EvText("# s\n")
    /\ OpenCodeBlock(events, consumed - 1) # 0
    /\ IsIgnoreBlock(events[OpenCodeBlock(events, consumed - 1)])
    /\ ~Contains(em.out, "# s")

\* a step of the loop on the end of a link or an image
LinkEndStep ==
    /\ ephase = "events"
    /\ consumed' = consumed + 1
    /\ NextEvent.e = "End"
    /\ NextEvent.tag.t \in {"Link", "Image"}

\* the destination of a link or an image, the reference for one without
\* definition
RawReference(tag) ==
    IF tag.lty \in {"ReferenceUnknown", "CollapsedUnknown", "ShortcutUnknown"} THEN tag.name
    ELSE tag.href

IsAutolink(tag) == tag.lty \in {"Autolink", "Email"}

\* the placeholders of the lines ` [__link<k>]: <url>` of a link trailer, in
\* the order of the lines
TrailerKeys(text) ==
    LET lines == SelectSeq(Split(text, "\n"), LAMBDA line : StartsWith(line, " [__link"))
    IN  [i \in DOMAIN lines |-> SubSeq(lines[i], 3, Find(lines[i], "]") - 1)]

\* the end of a link or image is written as a placeholder that is new to the
\* map, and the map gets the raw reference under it
PlaceholderWritten ==
    \E k \in 0..Len(events) :
        LET link == "__link" \o FormatNat(k)
        IN  /\ link \notin DOMAIN em.links
            /\ em'.out = em.out \o "][" \o link \o "]"
            /\ em'.links = em.links @@ (link :> RawReference(NextEvent.tag))

\* the end of an anchor or an autolink is written as it is, the map is left
\* as it was
LinkUnchanged ==
    /\ em'.links = em.links
    /\ em'.out = em.out \o (IF IsAutolink(NextEvent.tag) THEN ">"
                            ELSE "](" \o NextEvent.tag.href \o ")")

\* C18 as stated: a link or an image whose destination is no anchor `#...`
\* and that is no autolink is written as a placeholder `__link<k>` of its
\* own and recorded under it; anchors and autolinks are written as they are
\* and not recorded; the link trailer lists the placeholders in the order in
\* which they were first seen, for any number of links.
C18_FirstSeenOrder ==
    /\ [](ephase = "done" => TrailerKeys(readme_links) = seen)
    /\ [][LinkEndStep =>
            IF StartsWith(NextEvent.tag.href, "#") \/ IsAutolink(NextEvent.tag)
            THEN LinkUnchanged
            ELSE PlaceholderWritten]_vars

\* C18, the part that holds: every image, and every link that is no anchor
\* and no autolink, is written as a placeholder of its own and recorded under
\* it; links that are anchors or autolinks are written as they are and not
\* recorded; the link trailer has one line for every placeholder, in the
\* order in which they were first seen when there are at most ten.
C18_Placeholders ==
    /\ [](ephase = "done" =>
            /\ Len(TrailerKeys(readme_links)) = Len(seen)
            /\ {TrailerKeys(readme_links)[i] : i \in DOMAIN seen} = {seen[i] : i \in DOMAIN seen}
            /\ Len(seen) <= 10 => TrailerKeys(readme_links) = seen)
    /\ [][LinkEndStep =>
            IF NextEvent.tag.t = "Link"
                    /\ (StartsWith(NextEvent.tag.href, "#") \/ IsAutolink(NextEvent.tag))
            THEN LinkUnchanged
            ELSE PlaceholderWritten]_vars

\* a text of eleven links is done: the eleventh placeholder is the third of
\* the link trailer
C18_Failing ==
    /\ ephase = "done"
    /\ Len(seen) = 11
    /\ seen[11] = "__link10"
    /\ TrailerKeys(readme_links)[3] = "__link10"
    /\ TrailerKeys(readme_links)[4] = "__link2"

\* a step of the loop on the start of a heading
HeadingStep ==
    /\ ephase = "events"
    /\ consumed' = consumed + 1
    /\ NextEvent.e = "Start"
    /\ NextEvent.tag.t = "Heading"

\* C19: a heading of level n (1 to 6) is written on a line of its own with
\* n + 1 characters `#` and a space; no line of the output is a heading of
\* level 1.
C19_HeadingShift ==
    /\ [](/\ ~StartsWith(em.out, "# ")
          /\ \A before \in {"\n", "\t", "> "} : ~Contains(em.out, before \o "# "))
    /\ [][HeadingStep =>
            /\ NextEvent.tag.lvl \in 1..6
            /\ em'.out = em.out \o "\n" \o Join(em.indent, "")
                            \o SubSeq("#######", 1, NextEvent.tag.lvl + 1) \o " "]_vars

\* the start of a heading of level 1 was written as a heading of level 2
C19_Witness ==
    /\ consumed > 0
    /\ events[consumed] = EvStart(TagHeading(1))
    /\ EndsWith(em.out, "\n## ")
    /\ ~EndsWith(em.out, "\n### ")

\* the loop over the events of a text that is not empty is over
AtEnd == ephase # "idle" /\ Len(events) > 0 /\ consumed = Len(events) /\ ~em.panicked

\* the last block of the text: the tag of the last event
LastBlock == events[Len(events)].tag.t

FileOf(content) == [exists |-> TRUE, content |-> content]

\* the files at the output path before the run: none, one written by hand, the
\* one emit writes for this run, one with a damaged token, ones with a record
ExistingFiles(inp, tpl) ==
    {NoFile, FileOf("words\n\n"), FileOf("words\n\n" \o SearchKey \o "!!!\n")}
        \cup (IF EmitResults[<<inp, tpl>>].ok THEN {FileOf(EmitResults[<<inp, tpl>>].out)}
              ELSE {})
        \cup {FileOf(RecordDoc(rec, "\n").doc) :
                rec \in {r \in Records : r.dependencies \in {{}, {DependencyNew("anyhow", V101, "anyhow")}}}}

\* how reading the crate code goes: well, the expansion of the macros fails,
\* the code is no Rust
CodeOutcomes == {"ok", "expansion_failed", "syntax_error"}

MainInit ==
    /\ input \in Inputs
    /\ template \in Templates
    /\ mrun \in {[check |-> c, code |-> code, existing |-> f] :
                    c \in BOOLEAN, code \in CodeOutcomes, f \in ExistingFiles(input, template)}
    /\ out_file = mrun.existing
    /\ mphase = "start"
    /\ status = NoStatus
    /\ check_buf = ""
    /\ origin = NoOrigin
    /\ check = NoCheck
    /\ rendered = FALSE
    /\ IdleCodec
    /\ IdleScope
    /\ IdleLinks
    /\ IdleEmit

\* `.expect(...)` on an Err: the thread panics, main does not return
Panicked == [exit_code |-> "panic", severity |-> "none"]

\* main up to input_file: CrateCode::read_expansion or read_from_disk, then
\* input::read_code, each with `.expect`
DoReadInput ==
    /\ mphase = "start"
    /\ IF mrun.code = "ok"
       THEN mphase' = "input" /\ UNCHANGED status
       ELSE mphase' = "panicked" /\ status' = Panicked
    /\ UNCHANGED <<mrun, out_file>>
    /\ UNCHANGED <<codecVars, verifyVars, scopeVars, linkVars, emitVars>>

\* the branch of args.check, the file is not found
DoCheckNotFound ==
    /\ mphase = "input"
    /\ mrun.check
    /\ ~out_file.exists
    /\ mphase' = "done"
    /\ status' = [exit_code |-> "FAILURE", severity |-> "error"]
    /\ UNCHANGED <<mrun, out_file>>
    /\ UNCHANGED <<codecVars, verifyVars, scopeVars, linkVars, emitVars>>

\* the branch of args.check: check_up2date, Check::print and the exit code
DoCheck ==
    /\ mphase = "input"
    /\ mrun.check
    /\ out_file.exists
    /\ check_buf' = out_file.content
    /\ \E outcome \in CheckUp2Date(input, template, out_file.content) :
        /\ rendered' = outcome.rendered
        /\ IF outcome.kind = "Err"
           THEN /\ mphase' = "panicked"
                /\ status' = Panicked
                /\ UNCHANGED check
           ELSE /\ mphase' = "done"
                /\ check' = [kind |-> outcome.kind, name |-> outcome.name]
                /\ status' = [exit_code |-> ExitCodeOf(outcome.kind),
                              severity |-> CheckSeverity(outcome.kind)]
    /\ UNCHANGED <<input, template, origin, mrun, out_file>>
    /\ UNCHANGED <<codecVars, scopeVars, linkVars, emitVars>>

\* the branch that writes: File::create, the file is there and empty
DoCreate ==
    /\ mphase = "input"
    /\ ~mrun.check
    /\ out_file' = FileOf("")
    /\ mphase' = "created"
    /\ UNCHANGED <<mrun, status>>
    /\ UNCHANGED <<codecVars, verifyVars, scopeVars, linkVars, emitVars>>

\* the branch that writes: output::emit on the file, with `.expect`
DoEmitOut ==
    /\ mphase = "created"
    /\ IF EmitResults[<<input, template>>].ok
       THEN /\ out_file' = FileOf(out_file.content \o EmitResults[<<input, template>>].out)
            /\ mphase' = "done"
            /\ status' = [exit_code |-> "SUCCESS", severity |-> "none"]
       ELSE /\ mphase' = "panicked"
            /\ status' = Panicked
            /\ UNCHANGED out_file
    /\ UNCHANGED mrun
    /\ UNCHANGED <<codecVars, verifyVars, scopeVars, linkVars, emitVars>>

MainNext == DoReadInput \/ DoCheckNotFound \/ DoCheck \/ DoCreate \/ DoEmitOut

SpecMain == MainInit /\ [][MainNext]_vars

(***************************************************************************)
(* Properties of main.                                                     *)
(***************************************************************************)
\* the run has failed: main panicked
RunFailed == mphase = "panicked"

\* the run has written the readme
RunWrote == mphase = "done" /\ ~mrun.check

\* C21 as stated: after a run that failed (the code is no Rust, the expansion
\* of the macros failed, emit gave an error) the file at the output path is
\* the one from before the run: it has its content if it was there, and it is
\* not there if it was not; a run that did not fail has written the whole
\* document.
C21_NoOutputOnFailure ==
    /\ RunFailed => out_file = mrun.existing
    /\ RunWrote => out_file = FileOf(Emit(input, template).out)

\* C21, the part that holds: a run that fails while the crate code is read, or
\* that checks the readme, leaves the file at the output path as it was; a run
\* that writes and does not fail has written the whole document and nothing
\* else.
C21_FailureBeforeCreate ==
    /\ RunFailed /\ (mrun.code # "ok" \/ mrun.check) => out_file = mrun.existing
    /\ mphase = "done" /\ mrun.check => out_file = mrun.existing
    /\ RunWrote =>
        /\ Emit(input, template).ok
        /\ out_file = FileOf(Emit(input, template).out)
        /\ status.exit_code = "SUCCESS"

\* emit gave an error for a repository without host: the readme that was
\* there is empty
C21_Failing ==
    /\ RunFailed
    /\ ~mrun.check
    /\ input.repository = "github.com/msrd0"
    /\ mrun.existing = FileOf("words\n\n")
    /\ out_file = FileOf("")

\* the run has checked the readme that is there
RunChecked == mphase = "done" /\ mrun.check /\ out_file.exists

FailingKinds == {"InputChanged", "IncompatibleVersion", "OutdatedMarkdown", "OutputChanged"}

\* C22 as stated: a readme whose token does not decode is reported as a
\* warning and the check does not exit with a failure because of it; a readme
\* that is up to date makes the check succeed; a changed input, an
\* incompatible version of a dependency, an outdated markdown version and a
\* changed output are reported as errors and make the check fail.
C22_InvalidTolerated ==
    RunChecked =>
        /\ check.kind = "InvalidDepInfo"
            => status.severity = "warning" /\ status.exit_code # "FAILURE"
        /\ check.kind = "UpToDate" => status.exit_code = "SUCCESS"
        /\ check.kind \in FailingKinds
            => status.severity = "error" /\ status.exit_code = "FAILURE"

\* C22, the part that holds: a token that does not decode is reported as a
\* warning, the other outcomes but UpToDate as errors; the check succeeds for
\* UpToDate and fails for a changed input, an incompatible version, an
\* outdated markdown version and a changed output.
C22_Reported ==
    RunChecked =>
        /\ check.kind \in FailingKinds \cup {"UpToDate", "InvalidDepInfo"}
        /\ check.kind = "InvalidDepInfo" => status.severity = "warning"
        /\ check.kind = "UpToDate"
            => status.severity = "info" /\ status.exit_code = "SUCCESS"
        /\ check.kind \in FailingKinds
            => status.severity = "error" /\ status.exit_code = "FAILURE"

\* the readme with the token `!!!` was checked: a warning, and the exit code
\* of a failure
C22_Failing ==
    /\ RunChecked
    /\ out_file.content = "words\n\n" \o SearchKey \o "!!!\n"
    /\ check.kind = "InvalidDepInfo"
    /\ status = [exit_code |-> "FAILURE", severity |-> "warning"]

(***************************************************************************)
(* Termination of Scope::resolve and the imports that name themselves.     *)
(***************************************************************************)
\* the identifier a substitution of the head leads to: the first segment of the
\* path of the front binding, "" when the name has no binding or an absolute one
NextHead(name) ==
    LET key == IF name = "crate" THEN pkg.name ELSE name
    IN  IF ~HasValue([scope |-> scope, privmods |-> privmods], key) THEN ""
        ELSE IF StartsWith(scope[key][1].path, "::") THEN ""
        ELSE Split(scope[key][1].path, "::")[1]

RECURSIVE HeadChainEnds(_, _)
\* following the front bindings from a name ends within n substitutions
HeadChainEnds(name, n) ==
    IF NextHead(name) = "" THEN TRUE
    ELSE IF n = 0 THEN FALSE
    ELSE HeadChainEnds(NextHead(name), n - 1)

\* following the front bindings from a name comes back to a name already visited:
\* the chain is longer than the number of names of the scope
HeadCycle(name) == ~HeadChainEnds(name, Cardinality(DOMAIN scope))

\* C23 (termination): every call of Scope::resolve on a scope that
\* read_scope_from_file produced returns after finitely many substitutions of
\* the head segment.
C23_Terminates == resolved.called => resolved.result # Diverges

\* C23, the part that holds: a call of resolve fails to return exactly when its
\* path is not absolute and the front bindings from its head segment form a cycle.
C23_TerminatesWithoutCycle ==
    resolved.called =>
        (resolved.result = Diverges
            <=> /\ ~StartsWith(resolved.path, "::")
                /\ HeadCycle(Split(resolved.path, "::")[1]))

\* `use foo::foo;` was read and resolve was called on `foo`: it does not return
C23_Failing ==
    /\ resolved.called
    /\ file = <<ItemUse(FALSE, UsePath("foo", UseName("foo")))>>
    /\ resolved.path = "foo"
    /\ scope["foo"][1] = Binding("Use", "foo::foo")
    /\ resolved.result = Diverges

\* a binding of a name whose path is not absolute and starts with the name
SelfMapping(name, binding) ==
    /\ ~StartsWith(binding.path, "::")
    /\ Split(binding.path, "::")[1] = name

\* C24 (no entry maps an identifier to itself): once read_scope_from_file has
\* returned, no binding of a name has a relative path that starts with the name,
\* and following front bindings from a name never comes back to a name visited.
C24_NoSelfMapping ==
    phase = "read" =>
        \A name \in DOMAIN scope :
            /\ \A n \in 1..Len(scope[name]) : ~SelfMapping(name, scope[name][n])
            /\ ~HeadCycle(name)

\* C24, the part that holds: every binding that is not the Use binding of an
\* import has an absolute path, so only imports can map a name to itself.
C24_DeclarationsAbsolute ==
    phase = "read" =>
        \A name \in DOMAIN scope :
            \A n \in 1..Len(scope[name]) :
                scope[name][n].ty # "Use" => StartsWith(scope[name][n].path, "::")

\* `use a::b as a;` was read: the front binding of `a` is the relative path a::b
C24_Failing ==
    /\ phase = "read"
    /\ file = <<ItemUse(FALSE, UsePath("a", UseRename("b", "a")))>>
    /\ FrontBinding("a") = Binding("Use", "a::b")
    /\ SelfMapping("a", FrontBinding("a"))
    /\ HeadCycle("a")

(***************************************************************************)
(* The bindings of an import.                                              *)
(***************************************************************************)
RECURSIVE UseLeafIdent(_)
\* the identifier a use tree without groups imports, "" for a glob
UseLeafIdent(tree) ==
    IF tree.t = "Path" THEN UseLeafIdent(tree.sub[1])
    ELSE IF tree.t \in {"Name", "Rename"} THEN tree.ident
    ELSE ""

\* the item is an import of one path, `use p::X` or `use p::X as Y`
IsPathImport(i) ==
    /\ i.item = "Use"
    /\ ~IsPreludeImport(i.tree)
    /\ Len(UsePrefix(i.tree)) > 0
    /\ UseLeafName(i.tree) # ""

\* the path an import of one path names
ImportedPath(i) == Join(UsePrefix(i.tree) \o <<UseLeafIdent(i.tree)>>, "::")

\* the bindings of a name before an item is walked
BindingsOf(name) == IF name \in DOMAIN scope THEN scope[name] ELSE <<>>

\* the crate-root path of a name
CrateRootPath(name) == "::" \o SanitizeCrateName(pkg.name) \o "::" \o name

\* C25 as stated: right after `pub use p::X` (or `pub use p::X as Y`) is
\* processed, the crate-root binding of kind PubUse is the front binding of the
\* local name.
C25_PubUseInFront ==
    [][DoWalkItem /\ IsPathImport(file[walked + 1]) /\ file[walked + 1].public
       => scope'[UseLeafName(file[walked + 1].tree)][1]
            = Binding("PubUse", CrateRootPath(UseLeafName(file[walked + 1].tree)))]_vars

\* C25, amended: an import of one path puts the Use binding to the imported path
\* in front of the bindings of the local name (the new name when renamed); a
\* public import puts a PubUse binding to the crate-root path directly behind it,
\* a non-public import nothing else; no other name changes.  The PubUse binding
\* becomes the front binding only when the pass over private modules removes
\* the Use binding in front of it.
C25_ImportBindings ==
    /\ [][DoWalkItem /\ IsPathImport(file[walked + 1])
          => LET i == file[walked + 1]
                 name == UseLeafName(i.tree)
             IN  /\ scope'[name] =
                        <<Binding("Use", ImportedPath(i))>>
                        \o (IF i.public THEN <<Binding("PubUse", CrateRootPath(name))>>
                            ELSE <<>>)
                        \o BindingsOf(name)
                 /\ DOMAIN scope' = DOMAIN scope \cup {name}
                 /\ \A other \in DOMAIN scope \ {name} : scope'[other] = scope[other]]_vars
    /\ [][DoRemovePrivmodImports
          => \A name \in DOMAIN scope :
                Len(scope[name]) >= 2 /\ scope[name][1].ty = "Use"
                    /\ scope[name][2].ty = "PubUse"
                => (scope'[name][1] = scope[name][2]
                        <=> IsPrivmodImport(scope[name][1], SanitizeCrateName(pkg.name),
                                            privmods))]_vars

\* `pub use m::X as Y` has just been processed: the Use binding m::X is in front
\* of the PubUse binding ::my_crate::Y; and a file with the non-public
\* `use dep::Vec`, which has only the Use binding in front of the prelude
C25_Witness ==
    /\ phase = "items"
    /\ walked > 0
    /\ pkg.name = "my-crate"
    /\ \/ /\ file[walked] = ItemUse(TRUE, UsePath("m", UseRename("X", "Y")))
          /\ scope["Y"] = <<Binding("Use", "m::X"), Binding("PubUse", "::my_crate::Y")>>
       \/ /\ file[walked] = ItemUse(TRUE, UsePath("p", UseName("X")))
          /\ scope["X"][1] = Binding("Use", "p::X")
          /\ scope["X"][2] = Binding("PubUse", "::my_crate::X")

(***************************************************************************)
(* Glob imports.                                                           *)
(***************************************************************************)
RECURSIVE UseLeafNames(_)
\* the local names the leaves of a use tree give; a glob gives none
UseLeafNames(tree) ==
    IF tree.t = "Path" THEN UseLeafNames(tree.sub[1])
    ELSE IF tree.t = "Name" THEN {tree.ident}
    ELSE IF tree.t = "Rename" THEN {tree.rename}
    ELSE IF tree.t = "Group" THEN UNION {UseLeafNames(tree.sub[k]) : k \in 1..Len(tree.sub)}
    ELSE {}

RECURSIVE GlobCount(_)
RECURSIVE GlobCountOf(_)
\* the number of globs of a use tree
GlobCount(tree) ==
    IF tree.t = "Path" THEN GlobCount(tree.sub[1])
    ELSE IF tree.t = "Glob" THEN 1
    ELSE IF tree.t = "Group" THEN GlobCountOf(tree.sub)
    ELSE 0

GlobCountOf(items) ==
    IF Len(items) = 0 THEN 0 ELSE GlobCount(Head(items)) + GlobCountOf(Tail(items))

\* the item is an import below a path whose tree holds a glob
IsGlobImport(i) ==
    /\ i.item = "Use"
    /\ ~IsPreludeImport(i.tree)
    /\ i.tree.t = "Path"
    /\ GlobCount(i.tree) > 0

\* C26 (glob imports): processing an import that holds a glob enters bindings
\* for the names of its other leaves only (none for `use a::b::*`, where the
\* scope stays as it is), adds no private module, and records one warning per
\* glob without marking the diagnostics as failed; a single name that has no
\* entry in the scope is returned by resolve as it was written.
C26_GlobNotExpanded ==
    /\ [][DoWalkItem /\ IsGlobImport(file[walked + 1])
          => LET tree == file[walked + 1].tree
             IN  /\ DOMAIN scope' = DOMAIN scope \cup UseLeafNames(tree)
                 /\ \A name \in DOMAIN scope \ UseLeafNames(tree) :
                        scope'[name] = scope[name]
                 /\ \A name \in UseLeafNames(tree) :
                        /\ Len(scope'[name]) > Len(BindingsOf(name))
                        /\ scope'[name][1].ty = "Use"
                 /\ privmods' = privmods
                 /\ Len(diagnostics'.reports) = Len(diagnostics.reports) + GlobCount(tree)
                 /\ \A k \in 1..Len(diagnostics'.reports) :
                        k > Len(diagnostics.reports) => diagnostics'.reports[k] = "Warning"
                 /\ IsFail(diagnostics') = IsFail(diagnostics)]_vars
    /\ [](resolved.called /\ IsSingleName(resolved.path)
            /\ resolved.path \notin DOMAIN scope
          => resolved.result = resolved.path)

\* `pub use a::{b::*, c};` was read: one warning and no failure, c is bound, b is
\* not, and the reference `b` is returned as written
C26_Witness ==
    /\ resolved.called
    /\ file = <<ItemUse(TRUE, UsePath("a", UseGroup(<<UsePath("b", UseGlob), UseName("c")>>)))>>
    /\ diagnostics = [reports |-> <<"Warning">>, fail |-> FALSE]
    /\ privmods = {}
    /\ "b" \notin DOMAIN scope
    /\ FrontBinding("c") = Binding("Use", "a::c")
    /\ resolved.path = "b"
    /\ resolved.result = "b"

(***************************************************************************)
(* The records of the dependencies build_link registers.                   *)
(***************************************************************************)
\* the records of a published name
RecordsOf(name) == {dep \in ldeps.dependencies : dep.crate_name = name}

\* C27 as stated: the accumulator never holds two records of one published name.
C27_OneRecordPerName ==
    \A dep \in ldeps.dependencies : RecordsOf(dep.crate_name) = {dep}

\* C27, amended: the accumulator is a set of records (name, version, lib name).
\* A call of build_link adds at most one record and removes none; a call with
\* the path of the call before it changes nothing.  Two records of one name
\* differ in their version, so a name registered without and with a version has
\* two records; the map of DependencyInfoImpl::dependencies has one entry per
\* name, the one with the most specific version (a version over none, the
\* greater version over the lesser).
C27_RecordSet ==
    /\ [][/\ ldeps.dependencies \subseteq ldeps'.dependencies
          /\ Cardinality(ldeps'.dependencies) <= Cardinality(ldeps.dependencies) + 1
          /\ (built.called /\ built'.path = built.path => ldeps' = ldeps)]_vars
    /\ [](\A dep \in ldeps.dependencies :
            /\ \A other \in RecordsOf(dep.crate_name) :
                    other # dep => other.version # dep.version
            /\ dep.crate_name \in DOMAIN DependenciesMap(ldeps)
            /\ DependenciesMap(ldeps)[dep.crate_name].version
                    \in {d.version : d \in RecordsOf(dep.crate_name)}
            /\ ~OptVersionLess(DependenciesMap(ldeps)[dep.crate_name].version, dep.version))

\* `foo::X` and `bar::X` were linked, bar being the name the manifest gives the
\* dependency foo 1.0.0: foo has a record without a version and one with it,
\* and the map gives the version
C27_Witness ==
    /\ ncalls = 2
    /\ built.path = "bar::X"
    /\ RecordsOf("foo") = {DependencyNew("foo", NoVersion, "foo"),
                           DependencyNew("foo", V100, "foo")}
    /\ DependenciesMap(ldeps)["foo"].version = V100

(***************************************************************************)
(* The markers of list items.                                              *)
(***************************************************************************)
RECURSIVE OpenLists(_)
\* the lists open after the first k events, innermost last: a list start opens
\* one, a list end closes the innermost
OpenLists(k) ==
    IF k = 0 THEN <<>>
    ELSE IF events[k].e = "Start" /\ events[k].tag.t = "List"
    THEN Append(OpenLists(k - 1), events[k].tag.start)
    ELSE IF events[k].e = "End" /\ events[k].tag.t = "List"
    THEN SubSeq(OpenLists(k - 1), 1, Len(OpenLists(k - 1)) - 1)
    ELSE OpenLists(k - 1)

RECURSIVE StartedLists(_)
\* the lists started within the first k events, the last started last
StartedLists(k) ==
    IF k = 0 THEN <<>>
    ELSE IF events[k].e = "Start" /\ events[k].tag.t = "List"
    THEN Append(StartedLists(k - 1), events[k].tag.start)
    ELSE StartedLists(k - 1)

\* the marker of an item of a list with the start number, -1 for an unordered list
ItemMarker(start) == IF start >= 0 THEN " " \o FormatNat(start) \o ". " ELSE " - "

\* the next event of the loop starts a list item
IsItemStart == NextEvent.e = "Start" /\ NextEvent.tag.t = "Item"

\* C28 (list markers): an item is written with the marker of the innermost list
\* open at its place in the event stream, and the stack of open lists holds the
\* lists that are open: it grows on a list start and shrinks on a list end.
C28_InnermostMarker ==
    /\ [][DoEmitEvent /\ IsItemStart
          => em'.out = em.out \o ItemMarker(OpenLists(consumed)[Len(OpenLists(consumed))])]_vars
    /\ [](ephase = "events" => em.lists = OpenLists(consumed))

\* C28, the part that holds: an item is written with the marker of the list
\* started last before it (all items of one list without a list inside show
\* the start number of the list), and the stack holds every list started so far.
C28_LastStartedMarker ==
    /\ [][DoEmitEvent /\ IsItemStart
          => em'.out = em.out \o ItemMarker(StartedLists(consumed)[Len(StartedLists(consumed))])]_vars
    /\ [](ephase = "events" => em.lists = StartedLists(consumed))

\* `- a / (1. b) / - c`: the item c of the unordered list was written with the
\* marker of the ordered list that ended before it, and both lists are on the stack
C28_Failing ==
    /\ events = ListItems(-1, <<<<EvText("a")>> \o ListItems(1, <<<<EvText("b")>>>>),
                                <<EvText("c")>>>>)
    /\ consumed = 10
    /\ events[10] = EvStart(Tag("Item"))
    /\ OpenLists(consumed) = <<-1>>
    /\ em.lists = <<-1, 1>>
    /\ EndsWith(em.out, " 1. ")

(***************************************************************************)
(* The record emit embeds.                                                 *)
(***************************************************************************)
\* emit is done and readme_links starts with the marker and the encoded record
Embedded ==
    /\ ephase = "done"
    /\ StartsWith(readme_links, HashKey \o DependencyHashToken(eacc.hash) \o "\n")

\* the texts the input check is tried with
HashTexts == Templates \cup Rustdocs

\* C29 (hash fields): the record emit embeds holds the hash of the template in
\* its template-hash field and the hash of the documentation text in its
\* source-hash field: of all pairs of texts, the input check accepts exactly
\* the template and the documentation text of the run.
C29_HashFields ==
    Embedded =>
        /\ eacc.hash.template_hash = Blake3(TemplatePlain)
        /\ eacc.hash.rustdoc_hash = Blake3(EmitInput.rustdoc)
        /\ \A t \in HashTexts, r \in HashTexts :
            CheckInput(eacc.hash, t, r) <=> (t = TemplatePlain /\ r = EmitInput.rustdoc)

\* C29, what the code does: the two hashes are stored in each other's field, and
\* the input check accepts exactly the pair with the two texts swapped.
C29_FieldsSwapped ==
    Embedded =>
        /\ eacc.hash.template_hash = Blake3(EmitInput.rustdoc)
        /\ eacc.hash.rustdoc_hash = Blake3(TemplatePlain)
        /\ \A t \in HashTexts, r \in HashTexts :
            CheckInput(eacc.hash, t, r) <=> (t = EmitInput.rustdoc /\ r = TemplatePlain)

\* a record is embedded that fails the input check of its own template and
\* documentation text and passes the check of the two swapped
C29_Failing ==
    /\ Embedded
    /\ eacc.hash.dependencies = {DependencyNew("anyhow", NoVersion, "anyhow")}
    /\ ~CheckInput(eacc.hash, TemplatePlain, EmitInput.rustdoc)
    /\ CheckInput(eacc.hash, EmitInput.rustdoc, TemplatePlain)

(***************************************************************************)
(* The readmes in which emit embedded a record, and how they are verified. *)
(***************************************************************************)
\* the readme was written by emit and holds the marker emit writes
EmitEmbedded == origin.by = "emit" /\ Contains(check_buf, HashKey)

\* the token after the marker emit writes
EmbeddedToken ==
    DepinfoStrOf(SubSeq(check_buf, Find(check_buf, HashKey) + Len(HashKey), Len(check_buf)))

\* C30 (embedded-metadata path): a readme in which emit embedded a record is
\* verified by the record: check_up2date finds its marker in front of the
\* token emit wrote, the token decodes as a DependencyInfo, and the verifier
\* neither renders the readme anew nor reports InvalidDepInfo.
C30_EmbeddedPath ==
    Checked /\ EmitEmbedded =>
        /\ Find(check_buf, SearchKey) # 0
        /\ Decode(EmbeddedToken).ok
        /\ ~rendered
        /\ check.kind # "InvalidDepInfo"

\* C30, what the code does: the marker emit writes is not the marker the verifier
\* scans for and the token emit writes does not decode as a DependencyInfo; a
\* readme with an embedded record is verified by rendering it anew, unless the
\* template brought the verifier's marker into it, and then the token after
\* that marker is reported as InvalidDepInfo.
C30_NeverByRecord ==
    Checked /\ EmitEmbedded =>
        /\ HashKey # SearchKey
        /\ ~Decode(EmbeddedToken).ok
        /\ IF HasMarker THEN ~rendered /\ check.kind = "InvalidDepInfo"
           ELSE rendered /\ check.kind \in {"UpToDate", "OutputChanged", "Err"}

\* the readme emit made of this run's input, with a record for anyhow, was
\* verified by rendering it anew
C30_Failing ==
    /\ Checked
    /\ EmitEmbedded
    /\ origin.current
    /\ ~HasMarker
    /\ Find(check_buf, SearchKey) = 0
    /\ rendered
    /\ check.kind = "UpToDate"

====
